---- MODULE Spec2Model ----
(***************************************************************************)
(* Read-path caching, pagination, filtering and enrichment of the patient  *)
(* and therapist endpoints (controllers/therapistController.js, which      *)
(* holds the therapist controller, lines 1-803, and the patient            *)
(* controller, lines 805-1529; middleware/cacheMiddleware.js).             *)
(*                                                                         *)
(* Strings that the code inspects character by character (cache keys,      *)
(* keywords, names) are sequences of one-character strings.  Document ids  *)
(* are positive integers, rendered in decimal where the code interpolates  *)
(* them into a key.  Timestamps are milliseconds.                          *)
(***************************************************************************)
EXTENDS Integers, Sequences, FiniteSets, TLC

VARIABLES
  users,    \* the 'users' collection: document id -> document
  now,      \* Date.now()
  tcache,   \* therapist controller: const cache = new Map()
  pcache,   \* patient controller: const cache = new Map()
  mcache,   \* cacheMiddleware.js: const cache = new Map()
  req,      \* the request handled last
  resp,     \* its response
  inLog,    \* the id lists of the membership ('in') queries it issued
  walk,     \* a client following lastDocId from page to page
  served,   \* the number of requests handled so far
  admins,   \* the Admin collection: document id -> document
  chain,    \* the request passing through protect, authorize and its handler
  sessions, \* the Session collection: document id -> document
  procs     \* requests in flight together: each one's position and reads

vars == <<users, now, tcache, pcache, mcache, req, resp, inLog, walk, served,
          admins, chain, sessions, procs>>

authVars == <<admins, chain>>

sideVars == <<sessions, procs>>

----------------------------------------------------------------------------
(* Bounds of the model *)

MaxPatients == 12
MaxTherapists == 26
SmallData == 4
MaxTime == 300000
MaxRequests == 3

----------------------------------------------------------------------------
(* Strings *)

Undefined == <<"undefined">>
S_all == <<"a", "l", "l">>
S_true == <<"t", "r", "u", "e">>
S_false == <<"f", "a", "l", "s", "e">>
S_start == <<"s", "t", "a", "r", "t">>
S_us == <<"_">>
S_patients == <<"p", "a", "t", "i", "e", "n", "t", "s">>
S_patient_ == <<"p", "a", "t", "i", "e", "n", "t", "_">>
S_cbt == <<"C", "B", "T">>
S_art == <<"A", "r", "t">>
S_0_2 == <<"0", "-", "2">>
S_3_5 == <<"3", "-", "5">>
S_6_10 == <<"6", "-", "1", "0">>
S_10p == <<"1", "0", "+">>
S_7 == <<"7">>

\* a query parameter the code treats as present: neither undefined nor ''
Truthy(s) == s # Undefined /\ s # <<>>

\* String.prototype.toLowerCase, on the letters the model's strings use
LowerChar(c) ==
  CASE c = "A" -> "a" [] c = "B" -> "b" [] c = "C" -> "c" [] c = "L" -> "l"
    [] c = "N" -> "n" [] c = "S" -> "s" [] c = "T" -> "t" [] OTHER -> c

toLowerCase(s) == [i \in 1..Len(s) |-> LowerChar(s[i])]

\* String.prototype.includes
includes(s, t) ==
  \E i \in 0..(Len(s) - Len(t)) : \A j \in 1..Len(t) : s[i + j] = t[j]

DigitChar(d) ==
  CASE d = 0 -> "0" [] d = 1 -> "1" [] d = 2 -> "2" [] d = 3 -> "3"
    [] d = 4 -> "4" [] d = 5 -> "5" [] d = 6 -> "6" [] d = 7 -> "7"
    [] d = 8 -> "8" [] OTHER -> "9"

\* `${n}` for a non-negative integer
RECURSIVE NumStr(_)
NumStr(n) == IF n < 10 THEN <<DigitChar(n)>>
             ELSE NumStr(n \div 10) \o <<DigitChar(n % 10)>>

Min(a, b) == IF a < b THEN a ELSE b

RECURSIVE SumOver(_, _)
SumOver(f, S) == IF S = {} THEN 0
                 ELSE LET x == CHOOSE y \in S : TRUE
                      IN f[x] + SumOver(f, S \ {x})

SeqIds(s) == {s[i] : i \in 1..Len(s)}

----------------------------------------------------------------------------
(* The document store *)

NoId == 0          \* null / undefined in an identifier field or parameter

\* orderBy(f, 'desc'): a precedes b (ties broken by document id, descending)
Before(U, f, a, b) == U[a][f] > U[b][f] \/ (U[a][f] = U[b][f] /\ a > b)

RECURSIVE OrderDesc(_, _, _)
OrderDesc(U, f, S) ==
  IF S = {} THEN <<>>
  ELSE LET m == CHOOSE a \in S : \A b \in S \ {a} : Before(U, f, a, b)
       IN <<m>> \o OrderDesc(U, f, S \ {m})

\* query.startAfter(lastDoc), applied only when the cursor document exists
StartAfter(U, f, S, lastDocId) ==
  IF lastDocId # NoId /\ lastDocId \in DOMAIN U
  THEN {a \in S : Before(U, f, lastDocId, a)}
  ELSE S

\* query.limit(n)
Limit(s, n) == SubSeq(s, 1, Min(n, Len(s)))

\* the store's limit on the length of an 'in' list; a longer list is rejected
StoreInLimit == 10

\* the therapist controller's chunk length: therapistIds.slice(i, i + 10)
ChunkSize == 10

\* a sequence without its repetitions, first occurrences kept (new Set, Array.from)
RECURSIVE Dedup(_)
Dedup(s) ==
  IF s = <<>> THEN <<>>
  ELSE LET r == Dedup(SubSeq(s, 1, Len(s) - 1))
           x == s[Len(s)]
       IN IF x \in SeqIds(r) THEN r ELSE Append(r, x)

----------------------------------------------------------------------------
(* Patient controller: getPatients *)

\* Number(req.query.pageSize) || 10
PatientPageSize(q) ==
  IF q.pageSize = <<>> \/ q.pageSize[1] = 0 THEN 10 ELSE q.pageSize[1]

\* `${x || ''}`
OrEmpty(s) == IF Truthy(s) THEN s ELSE <<>>

\* patients_${pageSize}_${lastDocId || 'start'}_${keyword}_${profileComplete}_${therapistId}
PatientsCacheKey(q) ==
  S_patients \o S_us \o NumStr(PatientPageSize(q)) \o S_us
    \o (IF q.lastDocId # NoId THEN NumStr(q.lastDocId) ELSE S_start) \o S_us
    \o OrEmpty(q.keyword) \o S_us \o OrEmpty(q.profileComplete) \o S_us
    \o OrEmpty(q.therapistId)

\* where role == patient, plus the store-level filters of the request
PatientsQuery(U, q) ==
  LET base == {i \in DOMAIN U : U[i].role = "patient"}
      f1 == IF q.profileComplete # Undefined /\ q.profileComplete # <<>>
            THEN {i \in base :
                    U[i].isProfileComplete = (q.profileComplete = S_true)}
            ELSE base
  IN IF Truthy(q.therapistId)
     THEN {i \in f1 : U[i].assigned_therapist # NoId
                      /\ NumStr(U[i].assigned_therapist) = q.therapistId}
     ELSE f1

\* a snapshot limited to pageSize records, without the extra one
PatientsSnapshotExact(U, q) ==
  Limit(OrderDesc(U, "createdAt",
                  StartAfter(U, "createdAt", PatientsQuery(U, q), q.lastDocId)),
        PatientPageSize(q))

\* orderBy createdAt desc, startAfter, limit(pageSize + 1), get
PatientsSnapshot(U, q) ==
  Limit(OrderDesc(U, "createdAt",
                  StartAfter(U, "createdAt", PatientsQuery(U, q), q.lastDocId)),
        PatientPageSize(q) + 1)

\* if (snapshot.size > pageSize) { hasMore = true; snapshot.docs.pop() }
PatientsHasMore(U, q) == Len(PatientsSnapshot(U, q)) > PatientPageSize(q)

PatientsPageDocs(U, q) ==
  LET s == PatientsSnapshot(U, q)
  IN IF PatientsHasMore(U, q) THEN SubSeq(s, 1, Len(s) - 1) ELSE s

\* therapistIds: the distinct truthy assigned_therapist values of the page
PageTherapistIds(U, docs) ==
  Dedup(SelectSeq([i \in 1..Len(docs) |-> U[docs[i]].assigned_therapist],
                  LAMBDA t : t # NoId))

\* where role == professional and documentId in ids, select name, email
TherapistProjection(U, t) ==
  [id |-> t, full_name |-> U[t].name, email |-> U[t].email]

\* a lookup without the role predicate
AnyDocumentMap(U, ids) ==
  [t \in {x \in SeqIds(ids) : x \in DOMAIN U} |-> TherapistProjection(U, t)]

TherapistMap(U, ids) ==
  [t \in {x \in SeqIds(ids) : x \in DOMAIN U /\ U[x].role = "professional"}
     |-> TherapistProjection(U, t)]

\* one element of patientData, with assigned_therapist_info when it resolves
PatientItem(U, i, tmap) ==
  [id |-> i, doc |-> U[i],
   assigned_therapist_info |->
     IF U[i].assigned_therapist # NoId
        /\ U[i].assigned_therapist \in DOMAIN tmap
     THEN <<tmap[U[i].assigned_therapist]>> ELSE <<>>]

\* the keyword test of getPatients: name or email contains the search term
PatientMatches(item, keyword) ==
  LET searchTerm == toLowerCase(keyword)
  IN includes(toLowerCase(item.doc.name), searchTerm)
     \/ includes(toLowerCase(item.doc.email), searchTerm)

\* a cursor that would name the first element of patientData
PatientsFirstDocId(patientData) ==
  IF Len(patientData) > 0 THEN patientData[1].id ELSE NoId

\* the cursor getPatients reports: the last element of patientData
PatientsLastDocId(patientData) ==
  IF Len(patientData) > 0 THEN patientData[Len(patientData)].id ELSE NoId

\* fetchPatients: the outcome of one uncached getPatients request
fetchPatients(U, q) ==
  LET docs == PatientsPageDocs(U, q)
      ids == PageTherapistIds(U, docs)
      tmap == TherapistMap(U, ids)
      patientData == [k \in 1..Len(docs) |-> PatientItem(U, docs[k], tmap)]
      filtered == IF Truthy(q.keyword)
                  THEN SelectSeq(patientData,
                                 LAMBDA p : PatientMatches(p, q.keyword))
                  ELSE patientData
      ins == IF Len(ids) > 0 THEN <<ids>> ELSE <<>>
  IN IF Len(ids) > StoreInLimit
     THEN [ok |-> FALSE, ins |-> ins,
           body |-> [message |-> "store error"]]
     ELSE [ok |-> TRUE, ins |-> ins,
           body |-> [patients |-> filtered,
                     hasMore |-> PatientsHasMore(U, q),
                     lastDocId |-> PatientsLastDocId(patientData),
                     total |-> Len(filtered)]]

----------------------------------------------------------------------------
(* Therapist controller: getTherapists *)

\* destructuring default: an undefined filter parameter becomes ''
OrDefault(s) == IF s = Undefined THEN <<>> ELSE s

\* pageSize = 15 by default, Number.parseInt(pageSize) otherwise
TherapistPageSize(q) == IF q.pageSize = <<>> THEN 15 ELSE q.pageSize[1]

\* where role == professional, plus the store-level filters of the request
TherapistsQuery(U, q) ==
  LET base == {i \in DOMAIN U : U[i].role = "professional"}
      specialization == OrDefault(q.specialization)
      isVerified == OrDefault(q.isVerified)
      isProfileComplete == OrDefault(q.isProfileComplete)
      f1 == IF specialization # <<>> /\ specialization # S_all
            THEN {i \in base : U[i].specialization = specialization}
            ELSE base
      f2 == IF isVerified # <<>> /\ isVerified # S_all
            THEN {i \in f1 : U[i].isVerified = (isVerified = S_true)}
            ELSE f1
  IN IF isProfileComplete # <<>> /\ isProfileComplete # S_all
     THEN {i \in f2 : U[i].isProfileComplete = (isProfileComplete = S_true)}
     ELSE f2

\* orderBy updatedAt desc, startAfter, limit(parseInt(pageSize) + 1), get
TherapistsSnapshot(U, q) ==
  Limit(OrderDesc(U, "updatedAt",
                  StartAfter(U, "updatedAt", TherapistsQuery(U, q),
                             q.lastDocId)),
        TherapistPageSize(q) + 1)

\* if (snapshot.docs.length > pageSize) { hasMore = true; snapshot.docs.pop() }
TherapistsHasMore(U, q) == Len(TherapistsSnapshot(U, q)) > TherapistPageSize(q)

TherapistsPageDocs(U, q) ==
  LET s == TherapistsSnapshot(U, q)
  IN IF TherapistsHasMore(U, q) THEN SubSeq(s, 1, Len(s) - 1) ELSE s

\* the keyword test of getTherapists, over five text fields
TherapistMatches(d, keyword) ==
  LET keywordLower == toLowerCase(keyword)
  IN \/ includes(toLowerCase(d.name), keywordLower)
     \/ includes(toLowerCase(d.email), keywordLower)
     \/ includes(toLowerCase(d.specialization), keywordLower)
     \/ includes(toLowerCase(d.title), keywordLower)
     \/ includes(toLowerCase(d.bio), keywordLower)

\* a switch whose "10+" case would start at 10
InExperienceBucketFromTen(experience, e) ==
  CASE experience = S_0_2 -> e >= 0 /\ e <= 2
    [] experience = S_3_5 -> e >= 3 /\ e <= 5
    [] experience = S_6_10 -> e >= 6 /\ e <= 10
    [] experience = S_10p -> e >= 10
    [] OTHER -> TRUE

\* the switch of the experience filter; an unknown bucket keeps every record
InExperienceBucket(experience, e) ==
  CASE experience = S_0_2 -> e >= 0 /\ e <= 2
    [] experience = S_3_5 -> e >= 3 /\ e <= 5
    [] experience = S_6_10 -> e >= 6 /\ e <= 10
    [] experience = S_10p -> e > 10
    [] OTHER -> TRUE

\* the residual (client-side) filters, applied to the page in this order
TherapistsResidual(U, docs, q) ==
  LET keyword == OrDefault(q.keyword)
      experience == OrDefault(q.experience)
      k1 == IF keyword # <<>>
            THEN SelectSeq(docs, LAMBDA i : TherapistMatches(U[i], keyword))
            ELSE docs
  IN IF experience # <<>> /\ experience # S_all
     THEN SelectSeq(k1, LAMBDA i :
                          InExperienceBucket(experience, U[i].experience))
     ELSE k1

\* chunks.push(therapistIds.slice(i, i + 10)) for i = 0, 10, 20, ...
Chunks(ids) ==
  [c \in 1..((Len(ids) + ChunkSize - 1) \div ChunkSize) |->
     SubSeq(ids, (c - 1) * ChunkSize + 1, Min(c * ChunkSize, Len(ids)))]

\* where role == patient and assignedTherapist in chunk: the matching patients
AssignedIn(U, chunk) ==
  {p \in DOMAIN U : U[p].role = "patient" /\ U[p].assignedTherapist # NoId
                    /\ U[p].assignedTherapist \in SeqIds(chunk)}

\* patientCounts[uid], summed over the chunk queries (0 when never counted)
PatientCount(U, chunks, uid) ==
  SumOver([c \in 1..Len(chunks) |->
             Cardinality({p \in AssignedIn(U, chunks[c]) :
                            U[p].assignedTherapist = uid})],
          1..Len(chunks))

\* the cursor getTherapists reports: the last document of the store-level page
TherapistsLastDocId(docs) == IF Len(docs) > 0 THEN docs[Len(docs)] ELSE NoId

\* the try block of getTherapists: the outcome of one uncached request
fetchTherapists(U, q) ==
  LET docs == TherapistsPageDocs(U, q)
      kept == TherapistsResidual(U, docs, q)
      therapistIds == [k \in 1..Len(kept) |-> U[kept[k]].uid]
      chunks == Chunks(therapistIds)
  IN [status |-> 200, ins |-> chunks,
      body |-> [therapists |->
                  [k \in 1..Len(kept) |->
                     [id |-> kept[k], doc |-> U[kept[k]],
                      assignedPatientsCount |->
                        PatientCount(U, chunks, U[kept[k]].uid)]],
                hasMore |-> TherapistsHasMore(U, q),
                lastDocId |-> TherapistsLastDocId(docs),
                total |-> Len(kept)]]

----------------------------------------------------------------------------
(* Therapist controller: getTherapistsSummary *)

\* documents of a query without orderBy come in document-id order
RECURSIVE OrderAsc(_)
OrderAsc(S) ==
  IF S = {} THEN <<>>
  ELSE LET m == CHOOSE a \in S : \A b \in S : a <= b
       IN <<m>> \o OrderAsc(S \ {m})

\* Math.round((a / b) * 10), the average in tenths
RoundTenths(a, b) == (20 * a + b) \div (2 * b)

fetchTherapistsSummary(U) ==
  LET docs == OrderAsc({i \in DOMAIN U : U[i].role = "professional"})
      all == SeqIds(docs)
      therapistUids == [k \in 1..Len(docs) |-> U[docs[k]].uid]
      chunks == Chunks(therapistUids)
      total == Len(docs)
      verified == Cardinality({i \in all : U[i].isVerified})
      complete == Cardinality({i \in all : U[i].isProfileComplete})
      totalExperience == SumOver([i \in all |-> U[i].experience], all)
      totalPatients ==
        SumOver([c \in 1..Len(chunks) |->
                   Cardinality(AssignedIn(U, chunks[c]))], 1..Len(chunks))
  IN [status |-> 200, ins |-> chunks,
      body |-> [total |-> total, verified |-> verified,
                unverified |-> total - verified,
                profileComplete |-> complete,
                profileIncomplete |-> total - complete,
                totalPatients |-> totalPatients,
                averagePatients |->
                  IF total > 0 THEN RoundTenths(totalPatients, total) ELSE 0,
                averageExperience |->
                  IF total > 0 THEN RoundTenths(totalExperience, total) ELSE 0,
                specializationBreakdown |->
                  [sp \in {U[i].specialization : i \in all} |->
                     Cardinality({i \in all : U[i].specialization = sp})]]]

----------------------------------------------------------------------------
(* The three caches *)

CACHE_TTL == 300000        \* 5 * 60 * 1000, in each of the three files
MW_LIST_TTL == 300         \* cacheMiddleware(300) on GET /api/therapists
MW_SUMMARY_TTL == 600      \* cacheMiddleware(600) on GET /api/therapists/summary

\* a comparison that would still return an entry of age ttl
FreshInclusive(e, t, ttl) == t - e.timestamp <= ttl

\* Date.now() - cached.timestamp < ttl
Fresh(e, t, ttl) == t - e.timestamp < ttl

\* cache.get(key): the entries stored under key (none or one)
CacheGet(cache, key) == {e \in cache : e.key = key}

\* cache.set(key, { data, timestamp: Date.now() })
CacheSet(cache, key, data, t) ==
  {e \in cache : e.key # key}
    \cup {[key |-> key, data |-> data, timestamp |-> t]}

\* clearCache(pattern): delete every key that includes the pattern
clearCache(cache, pattern) == {e \in cache : ~includes(e.key, pattern)}

\* patient_${id}
PatientKey(id) == S_patient_ \o NumStr(id)

\* therapists_${JSON.stringify(req.query)} and the fixed therapist keys
TherapistsCacheKey(q) == [name |-> "therapists_", query |-> q]
NoQuery == [none |-> TRUE]
TherapistsSummaryKey == [name |-> "therapists_summary", query |-> NoQuery]

\* ${req.originalUrl}_${JSON.stringify(req.query)}
MiddlewareKey(url, q) == [url |-> url, query |-> q]

\* the outcome of a request: the status code and body of the response and
\* where the body came from; source "thrown" is a handler that threw, with
\* the status code it had set (200 when it set none) and the error as body
Response(status, body, source) ==
  [status |-> status, body |-> body, source |-> source]

\* the handler sent a 200 response
Answered(r) == r.status = 200 /\ r.source # "thrown"

\* errorHandler (middleware/errorMiddleware.js): an error thrown after the
\* handler set a status is answered with that status, any other error with
\* 500; the body carries the error's message either way
errorHandler(r) ==
  IF r.source = "thrown" /\ r.status = 200 THEN [r EXCEPT !.status = 500]
  ELSE r

\* the response the client receives
Sent(r) == errorHandler(r)

----------------------------------------------------------------------------
(* GET handlers *)

\* getCachedData(key, fetchFunction, ttl) of the patient controller, followed
\* by res.json; r is what fetchFunction yields if it runs.  A fetch that
\* throws stores nothing, and the handler throws with the status code
\* statusCode set on the response.
PatientCachedGet(key, r, ttl, statusCode) ==
  LET hit == {e \in CacheGet(pcache, key) : Fresh(e, now, ttl)}
  IN IF hit # {}
     THEN /\ resp' = Response(200, (CHOOSE e \in hit : TRUE).data, "pcache")
          /\ pcache' = pcache
          /\ inLog' = <<>>
     ELSE /\ resp' = IF r.ok THEN Response(200, r.body, "store")
                      ELSE Response(statusCode, r.body, "thrown")
          /\ pcache' = IF r.ok
                       THEN CacheSet(pcache, key, r.body, now) ELSE pcache
          /\ inLog' = r.ins

\* GET /api/patients; an error of the fetch is thrown with the status unset
getPatients(q) ==
  /\ req' = [h |-> "getPatients", q |-> q]
  /\ PatientCachedGet(PatientsCacheKey(q), fetchPatients(users, q),
                      CACHE_TTL, 200)
  /\ UNCHANGED <<users, now, tcache, mcache>>

\* fetchPatient of getPatientById
fetchPatient(U, id) ==
  IF id \notin DOMAIN U \/ U[id].role # "patient"
  THEN [ok |-> FALSE, ins |-> <<>>, body |-> [message |-> "Patient not found"]]
  ELSE LET t == U[id].assigned_therapist
       IN [ok |-> TRUE, ins |-> <<>>,
           body |-> [id |-> id, doc |-> U[id],
                     assigned_therapist_info |->
                       IF t # NoId /\ t \in DOMAIN U
                       THEN <<TherapistProjection(U, t)>> ELSE <<>>]]

\* GET /api/patients/:id; every error of the fetch is rethrown after
\* res.status(404)
getPatientById(id) ==
  /\ req' = [h |-> "getPatientById", id |-> id]
  /\ PatientCachedGet(PatientKey(id), fetchPatient(users, id), CACHE_TTL, 404)
  /\ UNCHANGED <<users, now, tcache, mcache>>

\* cacheMiddleware(ttl) in front of a handler whose outcome would be out:
\* a fresh entry answers the request, otherwise the handler runs and the
\* overridden res.json stores whatever body it sends
ViaMiddleware(url, q, ttl, out) ==
  LET mkey == MiddlewareKey(url, q)
      hit == {e \in CacheGet(mcache, mkey) : Fresh(e, now, ttl)}
  IN IF hit # {}
     THEN /\ resp' = Response(200, (CHOOSE e \in hit : TRUE).data, "mcache")
          /\ UNCHANGED <<tcache, mcache>>
          /\ inLog' = <<>>
     ELSE /\ resp' = Response(out.status, out.body, out.source)
          /\ tcache' = out.tc
          /\ mcache' = CacheSet(mcache, mkey, out.body, now)
          /\ inLog' = out.ins

\* a therapist-controller handler: getCachedData(key), else compute r and
\* setCachedData(key, result) when store is TRUE
TherapistCachedGet(key, r, useCache, store) ==
  LET hit == {e \in CacheGet(tcache, key) : Fresh(e, now, CACHE_TTL)}
  IN IF hit # {} /\ useCache
     THEN [status |-> 200, source |-> "tcache", tc |-> tcache, ins |-> <<>>,
           body |-> [success |-> TRUE,
                     data |-> (CHOOSE e \in hit : TRUE).data]]
     ELSE [status |-> r.status, source |-> "store", ins |-> r.ins,
           tc |-> IF store THEN CacheSet(tcache, key, r.body, now) ELSE tcache,
           body |-> [success |-> TRUE, data |-> r.body]]

\* GET /api/therapists: the cache is read and written for first pages only
getTherapists(q) ==
  /\ req' = [h |-> "getTherapists", q |-> q]
  /\ ViaMiddleware("/api/therapists", q, MW_LIST_TTL,
       TherapistCachedGet(TherapistsCacheKey(q), fetchTherapists(users, q),
                          q.lastDocId = NoId, q.lastDocId = NoId))
  /\ UNCHANGED <<users, now, pcache>>

\* GET /api/therapists/:id behind cacheMiddleware(300): 404 unless the
\* document is a therapist, else the record with its assigned patients' count
getTherapistById(id) ==
  /\ req' = [h |-> "getTherapistById", id |-> id]
  /\ ViaMiddleware([path |-> "/api/therapists", id |-> id], NoQuery,
       MW_LIST_TTL,
       IF id \notin DOMAIN users \/ users[id].role # "professional"
       THEN [status |-> 404, source |-> "store", ins |-> <<>>, tc |-> tcache,
             body |-> [success |-> FALSE, message |-> "Therapist not found"]]
       ELSE [status |-> 200, source |-> "store", ins |-> <<>>, tc |-> tcache,
             body |-> [success |-> TRUE,
                       data |-> [id |-> id, doc |-> users[id],
                                 assignedPatientsCount |->
                                   Cardinality({p \in DOMAIN users :
                                     /\ users[p].role = "patient"
                                     /\ users[p].assignedTherapist
                                          = users[id].uid})]]])
  /\ UNCHANGED <<users, now, pcache>>

\* GET /api/therapists/summary
getTherapistsSummary ==
  /\ req' = [h |-> "getTherapistsSummary"]
  /\ ViaMiddleware("/api/therapists/summary", NoQuery, MW_SUMMARY_TTL,
       TherapistCachedGet(TherapistsSummaryKey, fetchTherapistsSummary(users),
                          TRUE, TRUE))
  /\ UNCHANGED <<users, now, pcache>>

----------------------------------------------------------------------------
(* Mutating handlers *)

\* a field absent from a request body
UndefinedId == -1

\* updatePatient: a transaction that reads the patient, builds updateData from
\* the body fields that are defined (name only when it differs), writes when
\* updateData holds more than updatedAt, then clears patient_${id} and patients
updatePatient(id, b) ==
  /\ req' = [h |-> "updatePatient", id |-> id, body |-> b]
  /\ inLog' = <<>>
  /\ IF id \notin DOMAIN users \/ users[id].role # "patient"
     THEN /\ resp' = Response(200, [message |-> "Patient not found"],
                              "thrown")
          /\ UNCHANGED <<users, pcache>>
     ELSE LET cur == users[id]
              n == IF b.name # Undefined /\ b.name # cur.name
                   THEN b.name ELSE cur.name
              e == IF b.email # Undefined /\ b.email # cur.email
                   THEN b.email ELSE cur.email
              t == IF b.assigned_therapist # UndefinedId
                   THEN b.assigned_therapist ELSE cur.assigned_therapist
              written == \/ n # cur.name \/ e # cur.email
                         \/ b.assigned_therapist # UndefinedId
              result == [cur EXCEPT !.name = n, !.email = e,
                                    !.assigned_therapist = t,
                                    !.updatedAt = now]
          IN /\ users' = IF written THEN [users EXCEPT ![id] = result]
                         ELSE users
             /\ resp' = Response(200, [id |-> id, doc |-> result], "store")
             /\ pcache' = clearCache(clearCache(pcache, PatientKey(id)),
                                     S_patients)
  /\ UNCHANGED <<now, tcache, mcache>>

\* a commit that would skip the updates of missing documents
BatchCommitsAlways(U, ids) == TRUE

\* batch.commit(): an update of a document that does not exist rejects the
\* whole batch
BatchCommits(U, ids) == ids \subseteq DOMAIN U

\* batchUpdatePatients: one batch.update per listed id (the batch fails as a
\* whole when a listed document does not exist), then clearCache('patients')
batchUpdatePatients(ids, complete) ==
  /\ req' = [h |-> "batchUpdatePatients", ids |-> ids, complete |-> complete]
  /\ inLog' = <<>>
  /\ IF ids = {}
     THEN /\ resp' = Response(400, [message |-> "Patient IDs array is required"],
                              "thrown")
          /\ UNCHANGED <<users, pcache>>
     ELSE IF ~BatchCommits(users, ids)
     THEN /\ resp' = Response(200, [message |-> "store error"], "thrown")
          /\ UNCHANGED <<users, pcache>>
     ELSE /\ users' = [i \in DOMAIN users |->
                         IF i \in ids
                         THEN [users[i] EXCEPT !.isProfileComplete = complete,
                                               !.updatedAt = now]
                         ELSE users[i]]
          /\ resp' = Response(200, [updatedCount |-> Cardinality(ids)], "store")
          /\ pcache' = clearCache(pcache, S_patients)
  /\ UNCHANGED <<now, tcache, mcache>>

\* a snapshot that would leave out title and specialization
TherapistSnapshotShort(d) == [uid |-> d.uid, name |-> d.name, email |-> d.email]

\* the snapshot assignPatientsToTherapist stores on each newly assigned patient
TherapistSnapshot(d) ==
  [uid |-> d.uid, name |-> d.name, email |-> d.email, title |-> d.title,
   specialization |-> d.specialization]

\* assignPatientsToTherapist: one batch that unassigns the current patients of
\* the therapist, assigns the listed ones and touches the therapist; then
\* cache.clear() on the therapist controller's cache
assignPatientsToTherapist(id, patientIds) ==
  /\ req' = [h |-> "assignPatientsToTherapist", id |-> id, ids |-> patientIds]
  /\ inLog' = <<>>
  /\ IF id \notin DOMAIN users \/ users[id].role # "professional"
     THEN /\ resp' = Response(404, [message |-> "Therapist not found"], "store")
          /\ UNCHANGED <<users, tcache>>
     ELSE IF ~BatchCommits(users, patientIds)
     THEN /\ resp' = Response(500, [message |-> "Failed to assign patients"],
                              "store")
          /\ UNCHANGED <<users, tcache>>
     ELSE LET th == users[id]
              current == {p \in DOMAIN users :
                            users[p].role = "patient"
                            /\ users[p].assignedTherapist = th.uid}
              cleared == [i \in DOMAIN users |->
                            IF i \in current
                            THEN [users[i] EXCEPT !.assignedTherapist = NoId,
                                                  !.assignedTherapistInfo = <<>>,
                                                  !.updatedAt = now]
                            ELSE users[i]]
              assigned == [i \in DOMAIN users |->
                             IF i \in patientIds
                             THEN [cleared[i] EXCEPT
                                     !.assignedTherapist = th.uid,
                                     !.assignedTherapistInfo =
                                        <<TherapistSnapshot(th)>>,
                                     !.updatedAt = now]
                             ELSE cleared[i]]
          IN /\ users' = [assigned EXCEPT ![id].updatedAt = now]
             /\ resp' = Response(200,
                                 [assignedCount |-> Cardinality(patientIds)],
                                 "store")
             /\ tcache' = {}
  /\ UNCHANGED <<now, pcache, mcache>>

\* updateTherapist: update the fields the body defines (any field, uid
\* included) and updatedAt, then cache.clear()
updateTherapist(id, b) ==
  /\ req' = [h |-> "updateTherapist", id |-> id, body |-> b]
  /\ inLog' = <<>>
  /\ IF id \notin DOMAIN users \/ users[id].role # "professional"
     THEN /\ resp' = Response(404, [message |-> "Therapist not found"], "store")
          /\ UNCHANGED <<users, tcache>>
     ELSE /\ users' = [users EXCEPT
                         ![id].experience =
                            IF b.experience # UndefinedId
                            THEN b.experience ELSE @,
                         ![id].uid = IF b.uid # UndefinedId THEN b.uid ELSE @,
                         ![id].updatedAt = now]
          /\ resp' = Response(200, [id |-> id, doc |-> users'[id]], "store")
          /\ tcache' = {}
  /\ UNCHANGED <<now, pcache, mcache>>

----------------------------------------------------------------------------
(* Patient controller: mutations of one patient *)

\* the transaction's guard: the document exists and has role patient
IsPatient(U, id) == id \in DOMAIN U /\ U[id].role = "patient"

\* throw new Error('Patient not found') inside the transaction: nothing is
\* written, no status is set and the clearCache calls are not reached
PatientNotFound ==
  /\ resp' = Response(200, [message |-> "Patient not found"], "thrown")
  /\ UNCHANGED <<users, pcache>>

\* clearCache(`patient_${req.params.id}`); clearCache('patients')
ClearPatient(id) == clearCache(clearCache(pcache, PatientKey(id)), S_patients)

\* a flag list that would take the flag whether or not it is there
FlagsAppended(currentFlags, flag) == Append(currentFlags, flag)

\* the flags flagPatient stores: [...currentFlags, flag] unless
\* currentFlags.includes(flag)
FlagsAfter(currentFlags, flag) ==
  IF flag \in SeqIds(currentFlags) THEN currentFlags
  ELSE Append(currentFlags, flag)

\* PUT /api/patients/:id/flag; the response is the record as read, with
\* [...currentFlags, flag] whether or not the flag was there, and updated_at
flagPatient(id, flag) ==
  /\ req' = [h |-> "flagPatient", id |-> id, flag |-> flag]
  /\ inLog' = <<>>
  /\ IF ~IsPatient(users, id) THEN PatientNotFound
     ELSE LET currentFlags == users[id].flags
          IN /\ users' = IF FlagsAfter(currentFlags, flag) # currentFlags
                         THEN [users EXCEPT
                                 ![id].flags = FlagsAfter(currentFlags, flag),
                                 ![id].updatedAt = now]
                         ELSE users
             /\ resp' = Response(200,
                          [id |-> id,
                           doc |-> [users[id] EXCEPT
                                      !.flags = Append(currentFlags, flag)],
                           updated_at |-> now], "store")
             /\ pcache' = ClearPatient(id)
  /\ UNCHANGED <<now, tcache, mcache>>

\* PUT /api/patients/:id/documents; the response is the record as read with
\* the new documents list, and updated_at
uploadPatientDocument(id, documentUrl) ==
  /\ req' = [h |-> "uploadPatientDocument", id |-> id, url |-> documentUrl]
  /\ inLog' = <<>>
  /\ IF ~IsPatient(users, id) THEN PatientNotFound
     ELSE /\ users' = [users EXCEPT
                         ![id].documents = Append(@, documentUrl),
                         ![id].updatedAt = now]
          /\ resp' = Response(200,
                       [id |-> id,
                        doc |-> [users[id] EXCEPT
                                   !.documents = Append(@, documentUrl)],
                        updated_at |-> now], "store")
          /\ pcache' = ClearPatient(id)
  /\ UNCHANGED <<now, tcache, mcache>>

\* DELETE /api/patients/:id
deletePatient(id) ==
  /\ req' = [h |-> "deletePatient", id |-> id]
  /\ inLog' = <<>>
  /\ IF ~IsPatient(users, id) THEN PatientNotFound
     ELSE /\ users' = [i \in DOMAIN users \ {id} |-> users[i]]
          /\ resp' = Response(200, [message |-> "Patient removed"], "store")
          /\ pcache' = ClearPatient(id)
  /\ UNCHANGED <<now, tcache, mcache>>

\* PUT /api/patients/:id/assign-therapist
assignTherapistToPatient(id, therapistId) ==
  /\ req' = [h |-> "assignTherapistToPatient", id |-> id,
             therapistId |-> therapistId]
  /\ inLog' = <<>>
  /\ IF ~IsPatient(users, id) THEN PatientNotFound
     ELSE IF therapistId \notin DOMAIN users
             \/ users[therapistId].role # "professional"
     THEN /\ resp' = Response(200, [message |-> "Invalid therapist ID"],
                              "thrown")
          /\ UNCHANGED <<users, pcache>>
     ELSE /\ users' = [users EXCEPT ![id].assigned_therapist = therapistId,
                                    ![id].updatedAt = now]
          /\ resp' = Response(200, [id |-> id, doc |-> users'[id]], "store")
          /\ pcache' = ClearPatient(id)
  /\ UNCHANGED <<now, tcache, mcache>>

----------------------------------------------------------------------------
(* Creation, deletion and batch update *)

\* the fields of a users document that a new document does not set
BlankDoc ==
  [role |-> "none", uid |-> NoId, name |-> <<>>, email |-> <<>>,
   title |-> <<>>, specialization |-> <<>>, bio |-> <<>>, experience |-> 0,
   isVerified |-> FALSE, isProfileComplete |-> FALSE, createdAt |-> 0,
   updatedAt |-> 0, assigned_therapist |-> NoId, assignedTherapist |-> NoId,
   assignedTherapistInfo |-> <<>>, flags |-> <<>>, documents |-> <<>>]

\* a duplicate check that finds nothing
NoEmailHeld(U, email) == FALSE

\* existingPatientQuery: role == 'patient' and email == email, not empty
PatientEmailHeld(U, email) ==
  \E i \in DOMAIN U : U[i].role = "patient" /\ U[i].email = email

\* POST /api/patients; newId is the id the store gives the added document
createPatient(newId, name, email) ==
  /\ req' = [h |-> "createPatient", name |-> name, email |-> email]
  /\ inLog' = <<>>
  /\ IF PatientEmailHeld(users, email)
     THEN /\ resp' = Response(400,
                       [message |-> "Patient with this email already exists"],
                       "thrown")
          /\ UNCHANGED <<users, pcache>>
     ELSE LET patientData ==
                [BlankDoc EXCEPT !.role = "patient", !.name = name,
                                 !.email = email, !.isProfileComplete = TRUE,
                                 !.createdAt = now, !.updatedAt = now]
          IN /\ users' = [i \in DOMAIN users \cup {newId} |->
                            IF i = newId THEN patientData ELSE users[i]]
             /\ resp' = Response(201, [id |-> newId, doc |-> patientData],
                                 "store")
             /\ pcache' = clearCache(pcache, S_patients)
  /\ UNCHANGED <<now, tcache, mcache>>

\* uid || `therapist_${Date.now()}`
TherapistUid(uid, t) == IF uid # UndefinedId THEN uid ELSE 2000000 + t

\* POST /api/therapists; a uid of UndefinedId is a body without uid
createTherapist(newId, uid, name, email) ==
  /\ req' = [h |-> "createTherapist", uid |-> uid, name |-> name,
             email |-> email]
  /\ inLog' = <<>>
  /\ IF \E i \in DOMAIN users : users[i].email = email
     THEN /\ resp' = Response(400, [success |-> FALSE,
                                    message |-> "Email already exists"],
                              "store")
          /\ UNCHANGED <<users, tcache>>
     ELSE IF uid # UndefinedId /\ \E i \in DOMAIN users : users[i].uid = uid
     THEN /\ resp' = Response(400, [success |-> FALSE,
                                    message |-> "UID already exists"], "store")
          /\ UNCHANGED <<users, tcache>>
     ELSE LET therapistData ==
                [BlankDoc EXCEPT !.role = "professional",
                                 !.uid = TherapistUid(uid, now),
                                 !.name = name, !.email = email,
                                 !.specialization = S_cbt,
                                 !.createdAt = now, !.updatedAt = now]
          IN /\ users' = [i \in DOMAIN users \cup {newId} |->
                            IF i = newId THEN therapistData ELSE users[i]]
             /\ resp' = Response(201, [success |-> TRUE,
                                       data |-> [id |-> newId,
                                                 doc |-> therapistData]],
                                 "store")
             /\ tcache' = {}
  /\ UNCHANGED <<now, pcache, mcache>>

\* a query that would match every patient with a therapist assigned
AnyAssignedPatients(U, uid) ==
  {p \in DOMAIN U : U[p].role = "patient" /\ U[p].assignedTherapist # NoId}

\* patientsQuery of deleteTherapist: role == 'patient' and
\* assignedTherapist == therapistData.uid
AssignedPatients(U, uid) ==
  {p \in DOMAIN U : U[p].role = "patient" /\ U[p].assignedTherapist = uid}

\* DELETE /api/therapists/:id
deleteTherapist(id) ==
  /\ req' = [h |-> "deleteTherapist", id |-> id]
  /\ inLog' = <<>>
  /\ IF id \notin DOMAIN users \/ users[id].role # "professional"
     THEN /\ resp' = Response(404, [success |-> FALSE,
                                    message |-> "Therapist not found"], "store")
          /\ UNCHANGED <<users, tcache>>
     ELSE LET patients == AssignedPatients(users, users[id].uid)
          IN IF patients # {}
             THEN /\ resp' = Response(400,
                               [success |-> FALSE,
                                assignedPatientsCount |->
                                  Cardinality(patients)], "store")
                  /\ UNCHANGED <<users, tcache>>
             ELSE /\ users' = [i \in DOMAIN users \ {id} |-> users[i]]
                  /\ resp' = Response(200, [success |-> TRUE], "store")
                  /\ tcache' = {}
  /\ UNCHANGED <<now, pcache, mcache>>

\* PUT /api/therapists/batch-update with updateData { isVerified }: one
\* batch.update per listed id, on whatever document the id names; the commit
\* fails as a whole when a listed document does not exist
batchUpdateTherapists(ids, verified) ==
  /\ req' = [h |-> "batchUpdateTherapists", ids |-> ids,
             verified |-> verified]
  /\ inLog' = <<>>
  /\ IF ids = {}
     THEN /\ resp' = Response(400, [success |-> FALSE,
                                    message |-> "Invalid therapist IDs provided"],
                              "store")
          /\ UNCHANGED <<users, tcache>>
     ELSE IF ~BatchCommits(users, ids)
     THEN /\ resp' = Response(500, [success |-> FALSE,
                                    message |-> "Failed to update therapists"],
                              "store")
          /\ UNCHANGED <<users, tcache>>
     ELSE /\ users' = [i \in DOMAIN users |->
                         IF i \in ids
                         THEN [users[i] EXCEPT !.isVerified = verified,
                                               !.updatedAt = now]
                         ELSE users[i]]
          /\ resp' = Response(200, [success |-> TRUE], "store")
          /\ tcache' = {}
  /\ UNCHANGED <<now, pcache, mcache>>

----------------------------------------------------------------------------
(* Requests during which the store rejects every call *)

StoreError == [ok |-> FALSE, ins |-> <<>>, body |-> [message |-> "store error"]]

\* GET /api/patients/:id: a fresh entry is still served; otherwise the catch
\* of getPatientById sets res.status(404) and rethrows the store's error
getPatientByIdStoreError(id) ==
  /\ req' = [h |-> "getPatientById", id |-> id, storeError |-> TRUE]
  /\ PatientCachedGet(PatientKey(id), StoreError, CACHE_TTL, 404)
  /\ UNCHANGED <<users, now, tcache, mcache>>

\* GET /api/patients: the error leaves getCachedData and the handler with no
\* status set
getPatientsStoreError(q) ==
  /\ req' = [h |-> "getPatients", q |-> q, storeError |-> TRUE]
  /\ PatientCachedGet(PatientsCacheKey(q), StoreError, CACHE_TTL, 200)
  /\ UNCHANGED <<users, now, tcache, mcache>>

\* GET /api/therapists: the catch of getTherapists answers 500 with the
\* error's message, and the route's cacheMiddleware stores that body
getTherapistsStoreError(q) ==
  /\ req' = [h |-> "getTherapists", q |-> q, storeError |-> TRUE]
  /\ LET hit == {e \in CacheGet(tcache, TherapistsCacheKey(q)) :
                   Fresh(e, now, CACHE_TTL)}
     IN ViaMiddleware("/api/therapists", q, MW_LIST_TTL,
          IF hit # {} /\ q.lastDocId = NoId
          THEN TherapistCachedGet(TherapistsCacheKey(q),
                                  fetchTherapists(users, q), TRUE, FALSE)
          ELSE [status |-> 500, source |-> "store", ins |-> <<>>,
                tc |-> tcache,
                body |-> [success |-> FALSE,
                          message |-> "Failed to fetch therapists",
                          error |-> "store error"]])
  /\ UNCHANGED <<users, now, pcache>>

----------------------------------------------------------------------------
(* Authentication and authorisation of a routed request *)

AdminDoc(email, role) == [email |-> email, role |-> role]

\* seeders/seed.js: one super_admin and one admin
SeededAdmins ==
  [i \in {1, 2} |-> IF i = 1 THEN AdminDoc("super@", "super_admin")
                    ELSE AdminDoc("admin@", "admin")]

\* req.cookies.jwt: absent (or empty), or a token naming an admin id that
\* jwt.verify accepts (signed with JWT_SECRET, not expired) or rejects
NoToken == [kind |-> "none"]
Token(kind, id) == [kind |-> kind, id |-> id]

\* jwt.verify(token, process.env.JWT_SECRET) returns the payload
Verifies(token) == token.kind = "access"

\* Admin.findById(decoded.id).select("-password"): null when there is none
NoUser == [id |-> NoId, role |-> "none"]
findById(A, id) ==
  IF id \in DOMAIN A THEN [id |-> id, role |-> A[id].role] ELSE NoUser

\* the routes and the role list each passes to authorize
AdminRoutes ==
  {"POST /api/admins", "GET /api/admins", "PUT /api/admins/:id",
   "DELETE /api/admins/:id"}
PatientWriteRoutes ==
  {"POST /api/patients", "PUT /api/patients/:id", "DELETE /api/patients/:id",
   "PUT /api/patients/:id/assign-therapist", "PUT /api/patients/:id/flag",
   "PUT /api/patients/:id/documents", "PUT /api/patients/batch-update"}
PatientReadRoutes == {"GET /api/patients", "GET /api/patients/:id"}
TherapistWriteRoutes ==
  {"POST /api/therapists", "PUT /api/therapists/:id",
   "DELETE /api/therapists/:id", "PUT /api/therapists/:id/assign-patients"}
TherapistReadRoutes == {"GET /api/therapists/summary"}
Routes ==
  AdminRoutes \cup PatientWriteRoutes \cup PatientReadRoutes
    \cup TherapistWriteRoutes \cup TherapistReadRoutes

RouteRoles(route) ==
  CASE route \in {"POST /api/admins", "DELETE /api/admins/:id"} ->
         {"super_admin"}
    [] route \in {"GET /api/admins", "PUT /api/admins/:id"} ->
         {"super_admin", "admin"}
    [] route \in PatientReadRoutes -> {"admin", "super_admin", "professional"}
    [] OTHER -> {"admin", "super_admin"}

\* an authorize(...) that would let every resolved admin through
AuthorizedAnyRole(user, roles) == user # NoUser

\* authorize(...roles): !(!req.user || !roles.includes(req.user.role))
Authorized(user, roles) == user # NoUser /\ user.role \in roles

NoChain == [stage |-> "idle"]

\* the request enters the route's chain; res.statusCode starts at 200
receive(route, token) ==
  /\ chain' = [stage |-> "protect", route |-> route, token |-> token,
               user |-> NoUser, ran |-> FALSE]
  /\ resp' = Response(200, [none |-> TRUE], "none")
  /\ UNCHANGED <<users, now, tcache, pcache, mcache, req, inLog, admins>>

\* the chain ends with an error thrown after res.status(status)
Refuse(status, message) ==
  /\ resp' = Response(status, [message |-> message], "thrown")
  /\ chain' = [chain EXCEPT !.stage = "done"]

protect ==
  /\ chain.stage = "protect"
  /\ IF chain.token = NoToken THEN Refuse(401, "Not authorized, no token")
     ELSE IF ~Verifies(chain.token)
     THEN Refuse(401, "Not authorized, token failed")
     ELSE /\ chain' = [chain EXCEPT !.user = findById(admins, chain.token.id),
                                    !.stage = "authorize"]
          /\ resp' = resp
  /\ UNCHANGED <<users, now, tcache, pcache, mcache, req, inLog, admins>>

\* Admin.findById rejects inside protect's try block
protectStoreError ==
  /\ chain.stage = "protect"
  /\ chain.token # NoToken /\ Verifies(chain.token)
  /\ Refuse(401, "Not authorized, token failed")
  /\ UNCHANGED <<users, now, tcache, pcache, mcache, req, inLog, admins>>

authorize ==
  /\ chain.stage = "authorize"
  /\ IF ~Authorized(chain.user, RouteRoles(chain.route))
     THEN Refuse(403, "Not authorized to access this route")
     ELSE /\ chain' = [chain EXCEPT !.stage = "handler"]
          /\ resp' = resp
  /\ UNCHANGED <<users, now, tcache, pcache, mcache, req, inLog, admins>>

\* POST /api/admins
registerAdmin(newId, email, role) ==
  /\ req' = [h |-> "registerAdmin", email |-> email, role |-> role]
  /\ IF \E a \in DOMAIN admins : admins[a].email = email
     THEN /\ resp' = Response(400, [message |-> "Admin already exists"],
                              "thrown")
          /\ admins' = admins
     ELSE /\ admins' = [a \in DOMAIN admins \cup {newId} |->
                          IF a = newId THEN AdminDoc(email, role)
                          ELSE admins[a]]
          /\ resp' = Response(201, [id |-> newId, role |-> role], "store")

\* GET /api/admins
getAdmins ==
  /\ req' = [h |-> "getAdmins"]
  /\ resp' = Response(200, admins, "store")
  /\ admins' = admins

AdminNotFound ==
  /\ resp' = Response(404, [message |-> "Admin not found"], "thrown")
  /\ admins' = admins

\* PUT /api/admins/:id; the body's role, when given, replaces the role
updateAdmin(id, role) ==
  /\ req' = [h |-> "updateAdmin", id |-> id, role |-> role]
  /\ IF id \notin DOMAIN admins THEN AdminNotFound
     ELSE /\ admins' = IF role # "none"
                       THEN [admins EXCEPT ![id].role = role] ELSE admins
          /\ resp' = Response(200, [id |-> id, role |-> admins'[id].role],
                              "store")

\* DELETE /api/admins/:id
deleteAdmin(id) ==
  /\ req' = [h |-> "deleteAdmin", id |-> id]
  /\ IF id \notin DOMAIN admins THEN AdminNotFound
     ELSE /\ admins' = [a \in DOMAIN admins \ {id} |-> admins[a]]
          /\ resp' = Response(200, [message |-> "Admin removed"], "store")

----------------------------------------------------------------------------
(* Sessions: controllers/sessionController.js over the Session collection *)

\* the body's attended, one of "true", "false" and "undefined", is truthy
IsAttended(v) == v = "true"

\* no newDatetime in the body
NoDatetime == 0

SessionDoc(patient, therapist, datetime, duration, status, marked) ==
  [patient |-> patient, therapist |-> therapist, datetime |-> datetime,
   duration |-> duration, status |-> status, attendance_marked |-> marked]

\* seeders/seed.js: one upcoming, one completed and one missed session
SeededSessions ==
  (1 :> SessionDoc(1, 101, 170, 60, "upcoming", "undefined")) @@
  (2 :> SessionDoc(2, 102, 70, 45, "completed", "true")) @@
  (3 :> SessionDoc(1, 101, 30, 60, "missed", "false"))

SessionNotFound == Response(404, [message |-> "Session not found"], "thrown")

AttendanceStatusCompleted(attended) == "completed"

\* if (attended) status = "completed" else status = "missed"
AttendanceStatus(attended) ==
  IF IsAttended(attended) THEN "completed" ELSE "missed"

\* PUT /api/sessions/:id/mark-attendance
markSessionAttendance(id, attended) ==
  /\ req' = [h |-> "markSessionAttendance", id |-> id, attended |-> attended]
  /\ IF id \in DOMAIN sessions
     THEN /\ sessions' = [sessions EXCEPT
                            ![id].attendance_marked = attended,
                            ![id].status = AttendanceStatus(attended)]
          /\ resp' = Response(200, [id |-> id, doc |-> sessions'[id]], "store")
     ELSE /\ sessions' = sessions
          /\ resp' = SessionNotFound
  /\ UNCHANGED <<users, now, tcache, pcache, mcache, inLog>>

\* PUT /api/sessions/:id/status
updateSessionStatus(id, status, newDatetime) ==
  /\ req' = [h |-> "updateSessionStatus", id |-> id, status |-> status,
             newDatetime |-> newDatetime]
  /\ IF id \in DOMAIN sessions
     THEN /\ sessions' = [sessions EXCEPT
                            ![id].status = status,
                            ![id].datetime =
                              IF status = "rescheduled"
                                 /\ newDatetime # NoDatetime
                              THEN newDatetime ELSE @]
          /\ resp' = Response(200, [id |-> id, doc |-> sessions'[id]], "store")
     ELSE /\ sessions' = sessions
          /\ resp' = SessionNotFound
  /\ UNCHANGED <<users, now, tcache, pcache, mcache, inLog>>

----------------------------------------------------------------------------
(* Requests in flight together *)

\* Each handler is cut where it awaits the store: a step is what runs
\* between two awaits, or what the store does for one call.

ProcIds == {1, 2}

Idle == [pc |-> "idle"]

NoProcs == [p \in ProcIds |-> Idle]

\* the request enters its handler
Started(call, pc) ==
  [pc |-> pc, call |-> call, snap |-> <<>>, stale |-> FALSE, runs |-> 0]

\* the handler has answered
Finish(p, call, r) ==
  /\ procs' = [procs EXCEPT ![p].pc = "done"]
  /\ req' = call
  /\ resp' = r

InTransaction(call) == call.h \in {"flagPatient", "uploadPatientDocument"}

\* a commit to the documents ids invalidates the reads that the other
\* requests' open transactions made of them
Invalidate(P, p, ids) ==
  [k \in ProcIds |->
     IF k # p /\ P[k].pc = "commit" /\ InTransaction(P[k].call)
        /\ P[k].call.id \in ids
     THEN [P[k] EXCEPT !.stale = TRUE] ELSE P[k]]

ConflictNever(pr) == FALSE

\* db.runTransaction: a document read by the transaction was written since
Conflict(pr) == pr.stale

\* transaction.get(patientRef) of flagPatient and uploadPatientDocument; a
\* run of the update function starts here, the first and every later one
transactionGet(p) ==
  LET call == procs[p].call
  IN /\ procs[p].pc = "get"
     /\ IF ~IsPatient(users, call.id)
        THEN Finish(p, call,
                    Response(200, [message |-> "Patient not found"], "thrown"))
        ELSE /\ procs' = [procs EXCEPT ![p].pc = "commit",
                                       ![p].snap = users[call.id],
                                       ![p].stale = FALSE,
                                       ![p].runs = @ + 1]
             /\ UNCHANGED <<req, resp>>
     /\ UNCHANGED <<users, now, tcache, pcache, mcache, inLog>>

\* the document the update function of the transaction writes, from the one
\* it read
TransactionWrite(call, doc, t) ==
  IF call.h = "flagPatient"
  THEN IF FlagsAfter(doc.flags, call.flag) # doc.flags
       THEN [doc EXCEPT !.flags = FlagsAfter(doc.flags, call.flag),
                        !.updatedAt = t]
       ELSE doc
  ELSE [doc EXCEPT !.documents = Append(@, call.url), !.updatedAt = t]

\* the store commits the transaction, or runs the update function again
\* when what it read has been written meanwhile
transactionCommit(p) ==
  LET call == procs[p].call
      doc == TransactionWrite(call, procs[p].snap, now)
  IN /\ procs[p].pc = "commit"
     /\ InTransaction(call)
     /\ IF Conflict(procs[p])
        THEN /\ procs' = [procs EXCEPT ![p].pc = "get"]
             /\ users' = users
        ELSE /\ users' = [users EXCEPT ![call.id] = doc]
             /\ procs' = [Invalidate(procs, p, IF doc # procs[p].snap
                                                THEN {call.id} ELSE {})
                            EXCEPT ![p].pc = "clear"]
     /\ UNCHANGED <<now, tcache, pcache, mcache, req, resp, inLog>>

\* runTransaction has resolved: clearCache twice, then res.json(result)
transactionDone(p) ==
  LET call == procs[p].call
      doc == procs[p].snap
  IN /\ procs[p].pc = "clear"
     /\ InTransaction(call)
     /\ pcache' = ClearPatient(call.id)
     /\ Finish(p, call,
          Response(200,
            [id |-> call.id,
             doc |-> IF call.h = "flagPatient"
                     THEN [doc EXCEPT !.flags = Append(@, call.flag)]
                     ELSE [doc EXCEPT !.documents = Append(@, call.url)],
             updated_at |-> now], "store"))
     /\ UNCHANGED <<users, now, tcache, mcache, inLog>>

\* getCachedData of getPatientById up to its await: a fresh entry answers
\* the request at once
cachedLookup(p, call) ==
  LET hit == {e \in CacheGet(pcache, PatientKey(call.id)) :
                Fresh(e, now, CACHE_TTL)}
  IN /\ call.h = "getPatientById"
     /\ IF hit # {}
        THEN /\ procs' = [procs EXCEPT ![p] = Started(call, "done")]
             /\ req' = call
             /\ resp' = Response(200, (CHOOSE e \in hit : TRUE).data, "pcache")
        ELSE /\ procs' = [procs EXCEPT ![p] = Started(call, "fetch")]
             /\ UNCHANGED <<req, resp>>
     /\ UNCHANGED <<users, now, tcache, pcache, mcache, inLog>>

\* await fetchFunction(): the store reads of fetchPatient
cachedFetch(p) ==
  /\ procs[p].pc = "fetch"
  /\ procs' = [procs EXCEPT ![p].pc = "set",
                            ![p].snap = fetchPatient(users, procs[p].call.id)]
  /\ UNCHANGED <<users, now, tcache, pcache, mcache, req, resp, inLog>>

\* cache.set(key, { data, timestamp }) and res.json(data); an error of the
\* fetch is rethrown after res.status(404) and stores nothing
cachedSet(p) ==
  LET call == procs[p].call
      r == procs[p].snap
  IN /\ procs[p].pc = "set"
     /\ IF r.ok
        THEN /\ pcache' = CacheSet(pcache, PatientKey(call.id), r.body, now)
             /\ Finish(p, call, Response(200, r.body, "store"))
        ELSE /\ pcache' = pcache
             /\ Finish(p, call, Response(404, r.body, "thrown"))
     /\ UNCHANGED <<users, now, tcache, mcache, inLog>>

\* assignPatientsToTherapist up to its batch: therapistRef.get() and the
\* query for the patients assigned now; no request of the model writes a
\* therapist's role or uid, so the two reads are taken together
assignRead(p) ==
  LET call == procs[p].call
  IN /\ procs[p].pc = "read"
     /\ IF call.id \notin DOMAIN users \/ users[call.id].role # "professional"
        THEN Finish(p, call,
                    Response(404, [message |-> "Therapist not found"], "store"))
        ELSE /\ procs' = [procs EXCEPT
                            ![p].pc = "batch",
                            ![p].snap =
                              [th |-> users[call.id],
                               current |->
                                 AssignedPatients(users, users[call.id].uid)]]
             /\ UNCHANGED <<req, resp>>
     /\ UNCHANGED <<users, now, tcache, pcache, mcache, inLog>>

\* the batch: the patients found by the read lose the reference, then the
\* patients of the body get it, then the therapist's updatedAt
AssignBatch(U, id, th, current, patientIds, t) ==
  LET cleared == [i \in DOMAIN U |->
                    IF i \in current
                    THEN [U[i] EXCEPT !.assignedTherapist = NoId,
                                      !.assignedTherapistInfo = <<>>,
                                      !.updatedAt = t]
                    ELSE U[i]]
      assigned == [i \in DOMAIN U |->
                     IF i \in patientIds
                     THEN [cleared[i] EXCEPT
                             !.assignedTherapist = th.uid,
                             !.assignedTherapistInfo = <<TherapistSnapshot(th)>>,
                             !.updatedAt = t]
                     ELSE cleared[i]]
  IN [assigned EXCEPT ![id].updatedAt = t]

\* await batch.commit()
assignCommit(p) ==
  LET call == procs[p].call
      snap == procs[p].snap
      written == snap.current \cup call.ids \cup {call.id}
  IN /\ procs[p].pc = "batch"
     /\ IF ~BatchCommits(users, written)
        THEN /\ users' = users
             /\ Finish(p, call,
                  Response(500, [message |-> "Failed to assign patients"],
                           "store"))
        ELSE /\ users' = AssignBatch(users, call.id, snap.th, snap.current,
                                     call.ids, now)
             /\ procs' = [Invalidate(procs, p, written) EXCEPT
                            ![p].pc = "clear"]
             /\ UNCHANGED <<req, resp>>
     /\ UNCHANGED <<now, tcache, pcache, mcache, inLog>>

\* cache.clear() and res.json
assignDone(p) ==
  LET call == procs[p].call
  IN /\ procs[p].pc = "clear"
     /\ call.h = "assignPatientsToTherapist"
     /\ tcache' = {}
     /\ Finish(p, call,
          Response(200, [assignedCount |-> Cardinality(call.ids)], "store"))
     /\ UNCHANGED <<users, now, pcache, mcache, inLog>>

----------------------------------------------------------------------------
(* Data sets *)

S_Ann == <<"A", "n", "n">>
S_Sally == <<"S", "a", "l", "l", "y">>
S_Bo == <<"B", "o">>
S_Dr == <<"D", "r">>
S_mail_a == <<"a", "@", "x">>
S_mail_b == <<"b", "@", "x">>
S_AN == <<"A", "N">>
S_101 == <<"1", "0", "1">>

\* "twins": the therapists stored under ids 2k-1 and 2k carry one uid, as
\* after an updateTherapist whose body sets uid
Shapes == {"distinct", "shared", "mixed", "twins"}

\* the uid of the therapist stored under document id t
Uid(t) == 1000 + t

TherapistId(j) == 100 + j

DanglingId == 150      \* an id no document of a data set has

PatientDoc(i, shape) ==
  [role |-> "patient", uid |-> NoId,
   name |-> IF i % 3 = 1 THEN S_Ann ELSE IF i % 3 = 2 THEN S_Sally ELSE S_Bo,
   email |-> IF i % 2 = 0 THEN S_mail_a ELSE S_mail_b,
   title |-> <<>>, specialization |-> <<>>, bio |-> <<>>,
   experience |-> 0, isVerified |-> FALSE,
   isProfileComplete |-> (i % 2 = 1),
   createdAt |-> ((i * 7) % 31) + 1,
   updatedAt |-> ((i * 7) % 31) + 1,
   assigned_therapist |->
     CASE shape = "distinct" -> TherapistId(i)
       [] shape \in {"shared", "twins"} -> TherapistId(1 + (i % 2))
       [] OTHER -> CASE i % 4 = 0 -> NoId
                     [] i % 4 = 1 -> TherapistId(1)
                     [] i % 4 = 2 -> DanglingId
                     [] OTHER -> 1,
   assignedTherapist |->
     CASE shape = "distinct" -> Uid(TherapistId(i))
       [] shape \in {"shared", "twins"} -> Uid(TherapistId(1 + (i % 2)))
       [] OTHER -> IF i % 4 = 0 THEN NoId
                   ELSE Uid(TherapistId(1 + 10 * (i % 3))),
   assignedTherapistInfo |-> <<>>,
   flags |-> <<>>, documents |-> <<>>]

TherapistDoc(j, shape) ==
  [role |-> "professional",
   uid |-> IF shape = "twins" THEN Uid(TherapistId((j + 1) \div 2))
           ELSE Uid(TherapistId(j)),
   name |-> IF j % 2 = 0 THEN S_Ann ELSE S_Bo,
   email |-> IF j % 3 = 0 THEN S_mail_a ELSE S_mail_b,
   title |-> S_Dr,
   specialization |-> IF j % 3 = 0 THEN S_cbt ELSE S_art,
   bio |-> <<>>,
   experience |->
     (3 * j + (CASE shape = "distinct" -> 0
                 [] shape \in {"shared", "twins"} -> 1
                 [] OTHER -> 8)) % 13,
   isVerified |-> (j % 2 = 0),
   isProfileComplete |-> (j % 3 # 0),
   createdAt |-> j,
   updatedAt |-> ((j * 11) % 31) + 1,
   assigned_therapist |-> NoId, assignedTherapist |-> NoId,
   assignedTherapistInfo |-> <<>>,
   flags |-> <<>>, documents |-> <<>>]

\* nP patients under ids 1..nP and nT therapists under ids 101..100+nT
DataSet(nP, nT, shape) ==
  [i \in (1..nP) \cup {TherapistId(j) : j \in 1..nT} |->
     IF i <= nP THEN PatientDoc(i, shape)
     ELSE TherapistDoc(i - TherapistId(0), shape)]

StartTime == 100       \* every document of a data set is older than this

NoWalk == [h |-> "none"]

InitRest ==
  /\ now = StartTime
  /\ tcache = {} /\ pcache = {} /\ mcache = {}
  /\ req = [h |-> "none"]
  /\ resp = Response(0, [none |-> TRUE], "none")
  /\ inLog = <<>>
  /\ walk = NoWalk
  /\ served = 0
  /\ admins = SeededAdmins
  /\ chain = NoChain
  /\ sessions = SeededSessions
  /\ procs = NoProcs

----------------------------------------------------------------------------
(* Listing: one client request on a fixed data set, then its next pages *)

PatientQuery(ps, last, kw, pc, tid) ==
  [pageSize |-> ps, lastDocId |-> last, keyword |-> kw,
   profileComplete |-> pc, therapistId |-> tid]

TherapistQuery(ps, last, kw, sp, ver, pc, ex) ==
  [pageSize |-> ps, lastDocId |-> last, keyword |-> kw, specialization |-> sp,
   isVerified |-> ver, isProfileComplete |-> pc, experience |-> ex]

\* requests on the small data sets: every filter value of interest
RichPatientQueries ==
  {PatientQuery(ps, NoId, kw, pc, tid) :
     ps \in {<<>>, <<1>>, <<2>>},
     kw \in {Undefined, <<>>, S_all, S_AN},
     pc \in {Undefined, <<>>, S_all, S_true, S_false},
     tid \in {Undefined, <<>>, S_all, S_101}}

Given(x) == IF x = Undefined THEN 0 ELSE 1

RichTherapistQueries ==
  {q \in {TherapistQuery(ps, NoId, kw, sp, ver, pc, ex) :
            ps \in {<<>>, <<2>>},
            kw \in {Undefined, <<>>, S_AN},
            sp \in {Undefined, <<>>, S_all, S_cbt},
            ver \in {Undefined, <<>>, S_all, S_true, S_false},
            pc \in {Undefined, <<>>, S_all, S_true},
            ex \in {Undefined, <<>>, S_all, S_0_2, S_3_5, S_6_10, S_10p, S_7}} :
     Given(q.keyword) + Given(q.specialization) + Given(q.isVerified)
       + Given(q.isProfileComplete) + Given(q.experience) <= 2}

\* requests on the large data sets: page sizes only
PlainPatientQueries ==
  {PatientQuery(ps, NoId, Undefined, Undefined, Undefined) :
     ps \in {<<>>, <<1>>, <<3>>, <<11>>}}

PlainTherapistQueries ==
  {TherapistQuery(ps, NoId, Undefined, Undefined, Undefined, Undefined,
                  Undefined) : ps \in {<<>>, <<1>>, <<10>>, <<25>>}}

IsSmall == Cardinality(DOMAIN users) <= 2 * SmallData

InitList ==
  /\ \E shape \in Shapes :
       \/ \E nP \in 0..SmallData, nT \in 0..SmallData :
            users = DataSet(nP, nT, shape)
       \/ \E nP \in (SmallData + 1)..MaxPatients :
            users = DataSet(nP, 2, shape)
       \/ \E nT \in (SmallData + 1)..MaxTherapists :
            users = DataSet(3, nT, shape)
  /\ InitRest

ItemIds(items) == [k \in 1..Len(items) |-> items[k].id]

\* the page a getPatients / getTherapists response carries
PageOf(r) == IF req.h = "getTherapists" THEN r.body.data ELSE r.body

ListPatients ==
  /\ walk = NoWalk
  /\ \E q \in IF IsSmall THEN RichPatientQueries ELSE PlainPatientQueries :
       /\ getPatients(q)
       /\ walk' = [h |-> "getPatients", q |-> q,
                   ids |-> IF Answered(resp')
                           THEN ItemIds(resp'.body.patients) ELSE <<>>,
                   done |-> ~Answered(resp') \/ ~resp'.body.hasMore]
  /\ served' = served + 1
  /\ UNCHANGED <<authVars, sideVars>>

NextPatients ==
  /\ walk.h = "getPatients" /\ ~walk.done
  /\ getPatients([walk.q EXCEPT !.lastDocId = resp.body.lastDocId])
  /\ walk' = [walk EXCEPT
                !.ids = IF Answered(resp')
                        THEN @ \o ItemIds(resp'.body.patients) ELSE @,
                !.done = ~Answered(resp') \/ ~resp'.body.hasMore]
  /\ served' = served + 1
  /\ UNCHANGED <<authVars, sideVars>>

ListTherapists ==
  /\ walk = NoWalk
  /\ \E q \in IF IsSmall THEN RichTherapistQueries ELSE PlainTherapistQueries :
       /\ getTherapists(q)
       /\ walk' = [h |-> "getTherapists", q |-> q,
                   ids |-> ItemIds(resp'.body.data.therapists),
                   done |-> ~resp'.body.data.hasMore]
  /\ served' = served + 1
  /\ UNCHANGED <<authVars, sideVars>>

NextTherapists ==
  /\ walk.h = "getTherapists" /\ ~walk.done
  /\ getTherapists([walk.q EXCEPT !.lastDocId = resp.body.data.lastDocId])
  /\ walk' = [walk EXCEPT
                !.ids = @ \o ItemIds(resp'.body.data.therapists),
                !.done = ~resp'.body.data.hasMore]
  /\ served' = served + 1
  /\ UNCHANGED <<authVars, sideVars>>

ListSummary ==
  /\ walk = NoWalk
  /\ getTherapistsSummary
  /\ walk' = [h |-> "getTherapistsSummary"]
  /\ served' = served + 1
  /\ UNCHANGED <<authVars, sideVars>>

NextList ==
  \/ ListPatients
  \/ NextPatients
  \/ ListTherapists
  \/ NextTherapists
  \/ ListSummary

SpecList == InitList /\ [][NextList]_vars

----------------------------------------------------------------------------
(* The server over time: requests served one at a time, the clock advancing
   between them; the caches live as long as the process *)

\* the instants at which the clock is observed: around each time-to-live
Times ==
  {StartTime + d : d \in {d \in {MW_LIST_TTL - 1, MW_LIST_TTL, CACHE_TTL - 1,
                                 CACHE_TTL} : d <= MaxTime}}

Init ==
  /\ users = DataSet(2, 2, "shared")
  /\ InitRest

DefaultPatientQuery == PatientQuery(<<>>, NoId, Undefined, Undefined, Undefined)

DefaultTherapistQuery ==
  TherapistQuery(<<>>, NoId, Undefined, Undefined, Undefined, Undefined,
                 Undefined)

\* one more request is served
Serve ==
  /\ served < MaxRequests /\ served' = served + 1 /\ walk' = walk
  /\ UNCHANGED <<authVars, sideVars>>

Tick ==
  /\ \E t \in Times : t > now /\ now' = t
  /\ UNCHANGED <<users, tcache, pcache, mcache, req, resp, inLog, walk, served>>
  /\ UNCHANGED <<authVars, sideVars>>

ReadPatients == Serve /\ getPatients(DefaultPatientQuery)

ReadPatient == Serve /\ \E id \in {1, 2} : getPatientById(id)

ReadTherapists ==
  /\ Serve
  /\ \E last \in {NoId, TherapistId(1)} :
       getTherapists([DefaultTherapistQuery EXCEPT !.lastDocId = last])

ReadSummary == Serve /\ getTherapistsSummary

WritePatient ==
  /\ Serve
  /\ \E id \in {1, 3} :
       \E b \in {[name |-> S_Bo, email |-> Undefined,
                  assigned_therapist |-> UndefinedId],
                 [name |-> Undefined, email |-> Undefined,
                  assigned_therapist |-> TherapistId(1)]} :
         updatePatient(id, b)

WriteBatch ==
  /\ Serve
  /\ \E ids \in {{}, {1}, {1, 2}, {3}} : batchUpdatePatients(ids, TRUE)

WriteAssign ==
  /\ Serve
  /\ \E id \in {TherapistId(1), 3} :
       \E ids \in {{}, {1}} : assignPatientsToTherapist(id, ids)

WriteTherapist ==
  /\ Serve
  /\ \E id \in {TherapistId(1), 3} :
       \E b \in {[experience |-> 11, uid |-> UndefinedId],
                 [experience |-> UndefinedId, uid |-> Uid(TherapistId(2))]} :
         updateTherapist(id, b)

Next ==
  \/ Tick
  \/ ReadPatients
  \/ ReadPatient
  \/ ReadTherapists
  \/ ReadSummary
  \/ WritePatient
  \/ WriteBatch
  \/ WriteAssign
  \/ WriteTherapist

Spec == Init /\ [][Next]_vars

----------------------------------------------------------------------------
(* Writes: requests that create, change and delete records, served one at a
   time at one instant, with the reads that fill the caches *)

S_mail_c == <<"c", "@", "x">>
MissingId == 9          \* an id no document has
FlagValues == {"risk", "vip"}
FlaggedIds == {1, MissingId}

\* walk records, per patient id, the flag values passed to flagPatient so far
InitOps ==
  /\ users = DataSet(2, 3, "shared")
  /\ InitRest

Flagged(id) == IF walk = NoWalk THEN <<>> ELSE walk.flagged[id]

ServeOp ==
  /\ served < MaxRequests /\ served' = served + 1
  /\ UNCHANGED <<authVars, sideVars>>

\* the id the store gives the document added by this request
NewId == 200 + served

OpFlag ==
  /\ ServeOp
  /\ \E id \in FlaggedIds, flag \in FlagValues :
       /\ flagPatient(id, flag)
       /\ walk' = [h |-> "ops",
                   flagged |-> [i \in FlaggedIds |->
                                  IF i = id THEN Append(Flagged(i), flag)
                                  ELSE Flagged(i)]]

OpDocument ==
  /\ ServeOp /\ walk' = walk
  /\ \E id \in {1, TherapistId(1)} : uploadPatientDocument(id, "url")

OpDeletePatient ==
  /\ ServeOp /\ walk' = walk
  /\ \E id \in {2, TherapistId(1)} : deletePatient(id)

OpAssignTherapist ==
  /\ ServeOp /\ walk' = walk
  /\ \E id \in {1, MissingId}, t \in {TherapistId(1), 2} :
       assignTherapistToPatient(id, t)

OpUpdatePatient ==
  /\ ServeOp /\ walk' = walk
  /\ \E id \in {1, MissingId}, email \in {Undefined, S_mail_a} :
       updatePatient(id, [name |-> S_Bo, email |-> email,
                          assigned_therapist |-> UndefinedId])

OpCreatePatient ==
  /\ ServeOp /\ walk' = walk
  /\ \E email \in {S_mail_a, S_mail_c} : createPatient(NewId, S_Ann, email)

OpCreateTherapist ==
  /\ ServeOp /\ walk' = walk
  /\ \E b \in {[uid |-> UndefinedId, email |-> S_mail_c],
               [uid |-> Uid(TherapistId(1)), email |-> S_mail_c],
               [uid |-> Uid(MissingId), email |-> S_mail_a]} :
       createTherapist(NewId, b.uid, S_Ann, b.email)

OpDeleteTherapist ==
  /\ ServeOp /\ walk' = walk
  /\ \E id \in {TherapistId(1), TherapistId(3), MissingId} :
       deleteTherapist(id)

OpBatchPatients ==
  /\ ServeOp /\ walk' = walk
  /\ \E ids \in {{}, {1, 2}, {1, MissingId}} : batchUpdatePatients(ids, FALSE)

OpBatchTherapists ==
  /\ ServeOp /\ walk' = walk
  /\ \E ids \in {{}, {TherapistId(1), TherapistId(2)},
                 {TherapistId(1), MissingId}} :
       batchUpdateTherapists(ids, TRUE)

OpAssignPatients ==
  /\ ServeOp /\ walk' = walk
  /\ \E a \in {[id |-> TherapistId(1), ids |-> {}],
               [id |-> TherapistId(1), ids |-> {1}],
               [id |-> TherapistId(1), ids |-> {1, 2}],
               [id |-> TherapistId(1), ids |-> {1, MissingId}],
               [id |-> TherapistId(1), ids |-> {1, TherapistId(3)}],
               [id |-> MissingId, ids |-> {1}]} :
       assignPatientsToTherapist(a.id, a.ids)

OpRead ==
  /\ ServeOp /\ walk' = walk
  /\ \/ getPatientById(1)
     \/ getPatients(DefaultPatientQuery)
     \/ getTherapists(DefaultTherapistQuery)
     \/ \E id \in {TherapistId(1), MissingId} : getTherapistById(id)

OpReadStoreError ==
  /\ ServeOp /\ walk' = walk
  /\ \/ getPatientByIdStoreError(1)
     \/ getPatientsStoreError(DefaultPatientQuery)
     \/ getTherapistsStoreError(DefaultTherapistQuery)

NextOps ==
  \/ OpFlag
  \/ OpDocument
  \/ OpDeletePatient
  \/ OpAssignTherapist
  \/ OpUpdatePatient
  \/ OpCreatePatient
  \/ OpCreateTherapist
  \/ OpDeleteTherapist
  \/ OpBatchPatients
  \/ OpBatchTherapists
  \/ OpAssignPatients
  \/ OpRead
  \/ OpReadStoreError

SpecOps == InitOps /\ [][NextOps]_vars

----------------------------------------------------------------------------
(* Routed requests: each passes protect, authorize(roles) and then its
   handler, one request at a time *)

InitAuth ==
  /\ users = DataSet(2, 2, "shared")
  /\ InitRest

\* the requests that pass through the chain
MaxChainRequests == 2

\* the id the Admin collection gives the admin registered by this request
NewAdminId == 10 + served

TokenIds == {1, 2} \cup {10 + k : k \in 1..MaxChainRequests}
Tokens == {NoToken} \cup {Token(k, id) : k \in {"access", "rejected"},
                                         id \in TokenIds}

Receive ==
  /\ chain.stage \in {"idle", "done"}
  /\ served < MaxChainRequests /\ served' = served + 1 /\ walk' = walk
  /\ UNCHANGED sideVars
  /\ \E route \in Routes, token \in Tokens : receive(route, token)

Protect == protect /\ UNCHANGED <<walk, served, sideVars>>

ProtectStoreError == protectStoreError /\ UNCHANGED <<walk, served, sideVars>>

Authorize == authorize /\ UNCHANGED <<walk, served, sideVars>>

\* the handler is called by authorize's next()
Handled ==
  /\ chain.stage = "handler"
  /\ chain' = [chain EXCEPT !.stage = "done", !.ran = TRUE]
  /\ UNCHANGED <<walk, served, sideVars>>

AdminHandler ==
  /\ Handled
  /\ \/ /\ chain.route = "POST /api/admins"
        /\ \E b \in {[email |-> "pro@", role |-> "professional"],
                     [email |-> "admin@", role |-> "admin"]} :
             registerAdmin(NewAdminId, b.email, b.role)
     \/ chain.route = "GET /api/admins" /\ getAdmins
     \/ /\ chain.route = "PUT /api/admins/:id"
        /\ \E role \in {"none", "super_admin", "therapist"} :
             updateAdmin(2, role)
     \/ /\ chain.route = "DELETE /api/admins/:id"
        /\ \E id \in {1, 2} : deleteAdmin(id)
  /\ UNCHANGED <<users, now, tcache, pcache, mcache, inLog>>

PatientHandler ==
  /\ Handled /\ admins' = admins
  /\ \/ /\ chain.route = "POST /api/patients"
        /\ createPatient(NewId, S_Ann, S_mail_c)
     \/ /\ chain.route = "PUT /api/patients/:id"
        /\ updatePatient(1, [name |-> S_Bo, email |-> Undefined,
                              assigned_therapist |-> UndefinedId])
     \/ chain.route = "DELETE /api/patients/:id" /\ deletePatient(1)
     \/ /\ chain.route = "PUT /api/patients/:id/assign-therapist"
        /\ assignTherapistToPatient(1, TherapistId(2))
     \/ chain.route = "PUT /api/patients/:id/flag" /\ flagPatient(1, "risk")
     \/ /\ chain.route = "PUT /api/patients/:id/documents"
        /\ uploadPatientDocument(1, "url")
     \/ /\ chain.route = "PUT /api/patients/batch-update"
        /\ batchUpdatePatients({1, 2}, TRUE)
     \/ chain.route = "GET /api/patients" /\ getPatients(DefaultPatientQuery)
     \/ chain.route = "GET /api/patients/:id" /\ getPatientById(1)

TherapistHandler ==
  /\ Handled /\ admins' = admins
  /\ \/ /\ chain.route = "POST /api/therapists"
        /\ createTherapist(NewId, UndefinedId, S_Ann, S_mail_c)
     \/ /\ chain.route = "PUT /api/therapists/:id"
        /\ updateTherapist(TherapistId(1),
                           [experience |-> 11, uid |-> UndefinedId])
     \/ /\ chain.route = "DELETE /api/therapists/:id"
        /\ deleteTherapist(TherapistId(2))
     \/ /\ chain.route = "PUT /api/therapists/:id/assign-patients"
        /\ assignPatientsToTherapist(TherapistId(1), {1})
     \/ chain.route = "GET /api/therapists/summary" /\ getTherapistsSummary

NextAuth ==
  \/ Receive
  \/ Protect
  \/ ProtectStoreError
  \/ Authorize
  \/ AdminHandler
  \/ PatientHandler
  \/ TherapistHandler

SpecAuth == InitAuth /\ [][NextAuth]_vars

----------------------------------------------------------------------------
(* Cache keys: read requests with differing parameters, on data that does
   not change *)

S_n == <<"n">>
S_n_ == <<"n", "_">>

\* the requests whose keys are compared
MaxKeyRequests == 2

KeyPatientQueries ==
  {PatientQuery(<<>>, NoId, kw, pc, tid) :
     kw \in {Undefined, <<>>, S_n, S_n_},
     pc \in {Undefined, <<>>, S_true, S_us},
     tid \in {Undefined, <<>>, S_101}}
    \cup {PatientQuery(<<1>>, NoId, Undefined, Undefined, Undefined),
          PatientQuery(<<>>, 1, Undefined, Undefined, Undefined)}

KeyTherapistQueries ==
  {TherapistQuery(<<>>, NoId, kw, Undefined, ver, Undefined, Undefined) :
     kw \in {Undefined, S_n, S_n_}, ver \in {Undefined, S_true}}

InitKeys ==
  /\ users = DataSet(4, 2, "shared")
  /\ InitRest

ServeKey ==
  /\ served < MaxKeyRequests /\ served' = served + 1 /\ walk' = walk
  /\ UNCHANGED <<authVars, sideVars>>

KeyedPatients == ServeKey /\ \E q \in KeyPatientQueries : getPatients(q)

KeyedTherapists == ServeKey /\ \E q \in KeyTherapistQueries : getTherapists(q)

NextKeys ==
  \/ KeyedPatients
  \/ KeyedTherapists

SpecKeys == InitKeys /\ [][NextKeys]_vars

----------------------------------------------------------------------------
(* Cursors: list requests whose lastDocId may name a record that was
   deleted *)

MaxCursorRequests == 3

InitCursor ==
  /\ users = DataSet(3, 3, "shared")
  /\ InitRest

ServeCursor ==
  /\ served < MaxCursorRequests /\ served' = served + 1 /\ walk' = walk
  /\ UNCHANGED <<authVars, sideVars>>

CursorPatients ==
  /\ ServeCursor
  /\ \E ps \in {<<>>, <<1>>}, last \in {NoId, 1, 3, MissingId} :
       getPatients(PatientQuery(ps, last, Undefined, Undefined, Undefined))

CursorTherapists ==
  /\ ServeCursor
  /\ \E ps \in {<<>>, <<1>>}, last \in {NoId, TherapistId(3), MissingId} :
       getTherapists(TherapistQuery(ps, last, Undefined, Undefined, Undefined,
                                    Undefined, Undefined))

CursorDelete ==
  /\ ServeCursor
  /\ \/ \E id \in {1, 3} : deletePatient(id)
     \/ deleteTherapist(TherapistId(3))

NextCursor ==
  \/ CursorPatients
  \/ CursorTherapists
  \/ CursorDelete

SpecCursor == InitCursor /\ [][NextCursor]_vars

----------------------------------------------------------------------------
(* Session requests, one after another *)

MaxSessionRequests == 3

InitSessions == users = DataSet(2, 2, "shared") /\ InitRest

ServeSession ==
  /\ served < MaxSessionRequests /\ served' = served + 1
  /\ UNCHANGED <<walk, authVars, procs>>

MarkAttendance ==
  /\ ServeSession
  /\ \E id \in {1, 2, MissingId}, attended \in {"true", "false", "undefined"} :
       markSessionAttendance(id, attended)

UpdateStatus ==
  /\ ServeSession
  /\ \E id \in {1, 2, MissingId}, status \in {"cancelled", "rescheduled"},
        newDatetime \in {NoDatetime, 200} :
       updateSessionStatus(id, status, newDatetime)

NextSessions ==
  \/ MarkAttendance
  \/ UpdateStatus

SpecSessions == InitSessions /\ [][NextSessions]_vars

----------------------------------------------------------------------------
(* Two requests in flight together *)

MaxRaceRequests == 3

InitRace == users = DataSet(2, 2, "shared") /\ InitRest

RaceCalls ==
  {[h |-> "flagPatient", id |-> 1, flag |-> f] : f \in {"risk", "urgent"}}
  \cup {[h |-> "uploadPatientDocument", id |-> 1, url |-> u] :
          u \in {"a", "b"}}
  \cup {[h |-> "assignPatientsToTherapist", id |-> TherapistId(1),
         ids |-> S] : S \in {{1}, {2}}}
  \cup {[h |-> "getPatientById", id |-> 1]}

RaceStep == UNCHANGED <<walk, served, authVars, sessions>>

\* a request arrives while the other one may be waiting for the store
Begin ==
  \E p \in ProcIds, call \in RaceCalls :
    /\ procs[p].pc \in {"idle", "done"}
    /\ served < MaxRaceRequests /\ served' = served + 1
    /\ UNCHANGED <<walk, authVars, sessions>>
    /\ IF call.h = "getPatientById" THEN cachedLookup(p, call)
       ELSE /\ procs' = [procs EXCEPT ![p] =
                           Started(call, IF InTransaction(call)
                                         THEN "get" ELSE "read")]
            /\ UNCHANGED <<users, now, tcache, pcache, mcache, req, resp,
                           inLog>>

TransactionGet == RaceStep /\ \E p \in ProcIds : transactionGet(p)

TransactionCommit == RaceStep /\ \E p \in ProcIds : transactionCommit(p)

TransactionDone == RaceStep /\ \E p \in ProcIds : transactionDone(p)

CachedFetch == RaceStep /\ \E p \in ProcIds : cachedFetch(p)

CachedSet == RaceStep /\ \E p \in ProcIds : cachedSet(p)

AssignRead == RaceStep /\ \E p \in ProcIds : assignRead(p)

AssignCommit == RaceStep /\ \E p \in ProcIds : assignCommit(p)

AssignDone == RaceStep /\ \E p \in ProcIds : assignDone(p)

NextRace ==
  \/ Begin
  \/ TransactionGet
  \/ TransactionCommit
  \/ TransactionDone
  \/ CachedFetch
  \/ CachedSet
  \/ AssignRead
  \/ AssignCommit
  \/ AssignDone

SpecRace == InitRace /\ [][NextRace]_vars

----------------------------------------------------------------------------
(* Properties of the listing endpoints, checked under SpecList *)

PatientsAnswered == req.h = "getPatients" /\ Answered(resp)
TherapistsAnswered == req.h = "getTherapists" /\ Answered(resp)

\* the records that match the store-level predicates of the request from the
\* position of its cursor on, in the order of the listing
PatientsFrom(q) ==
  OrderDesc(users, "createdAt",
            {i \in DOMAIN users :
               /\ i \in PatientsQuery(users, q)
               /\ q.lastDocId \in DOMAIN users
                    => Before(users, "createdAt", q.lastDocId, i)})

TherapistsFrom(q) ==
  OrderDesc(users, "updatedAt",
            {i \in DOMAIN users :
               /\ i \in TherapistsQuery(users, q)
               /\ q.lastDocId \in DOMAIN users
                    => Before(users, "updatedAt", q.lastDocId, i)})

\* C3: following lastDocId from the first page until hasMore is false, with no
\* keyword or experience filter, returns every matching record exactly once in
\* descending order of the ordering field, for patients and for therapists.
C3_WalkReturnsEveryRecordOnce ==
  /\ (walk.h = "getPatients" /\ walk.done /\ ~Truthy(walk.q.keyword))
       => /\ Answered(resp)
          /\ ~resp.body.hasMore
          /\ walk.ids = PatientsFrom(walk.q)
  /\ (walk.h = "getTherapists" /\ walk.done /\ ~Truthy(walk.q.keyword)
        /\ ~Truthy(walk.q.experience))
       => /\ Answered(resp)
          /\ ~resp.body.data.hasMore
          /\ walk.ids = TherapistsFrom(walk.q)

\* the walks of C3 that the therapist endpoint serves, and those of the patient
\* endpoint whose pages never reference more than StoreInLimit therapists
WalkCompleteWhereAnswered ==
  /\ (walk.h = "getPatients" /\ walk.done /\ ~Truthy(walk.q.keyword)
        /\ Answered(resp))
       => ~resp.body.hasMore /\ walk.ids = PatientsFrom(walk.q)
  /\ (walk.h = "getTherapists" /\ walk.done /\ ~Truthy(walk.q.keyword)
        /\ ~Truthy(walk.q.experience))
       => /\ Answered(resp)
          /\ ~resp.body.data.hasMore
          /\ walk.ids = TherapistsFrom(walk.q)

\* C4: a page holds at most pageSize records, and hasMore is true exactly when
\* a further record matching the store-level predicates follows the last
\* record of the store-level page (which then holds pageSize records).
C4_HasMoreIffFurtherRecord ==
  /\ PatientsAnswered =>
       LET q == req.q
           rest == PatientsFrom(q)
           k == PatientPageSize(q)
       IN /\ Len(resp.body.patients) <= k
          /\ resp.body.hasMore <=> Len(rest) > k
          /\ resp.body.hasMore <=>
               \E i \in SeqIds(rest) :
                  /\ resp.body.lastDocId # NoId
                  /\ Before(users, "createdAt", resp.body.lastDocId, i)
          /\ ~Truthy(q.keyword) =>
               ItemIds(resp.body.patients) = SubSeq(rest, 1, Min(k, Len(rest)))
  /\ TherapistsAnswered =>
       LET q == req.q
           rest == TherapistsFrom(q)
           k == TherapistPageSize(q)
           page == resp.body.data
       IN /\ Len(page.therapists) <= k
          /\ page.hasMore <=> Len(rest) > k
          /\ page.hasMore <=>
               \E i \in SeqIds(rest) :
                  /\ page.lastDocId # NoId
                  /\ Before(users, "updatedAt", page.lastDocId, i)
          /\ (~Truthy(q.keyword) /\ ~Truthy(q.experience)) =>
               ItemIds(page.therapists) = SubSeq(rest, 1, Min(k, Len(rest)))

\* eleven patients listed ten to a page: ten items and then one
C4_Witness ==
  /\ walk.h = "getPatients" /\ walk.done /\ served = 2
  /\ PatientPageSize(walk.q) = 10
  /\ Len(walk.ids) = 11
  /\ Len(resp.body.patients) = 1 /\ ~resp.body.hasMore

\* the ids of the store-level page a listing request was answered from
StorePage ==
  IF req.h = "getTherapists" THEN TherapistsPageDocs(users, req.q)
  ELSE PatientsPageDocs(users, req.q)

\* C5 as claimed: in every response with a non-empty item list, lastDocId is
\* the id of the last item of that list, whatever the filters.
C5_CursorIsLastReturnedItem ==
  /\ (PatientsAnswered /\ Len(resp.body.patients) > 0)
       => resp.body.lastDocId
            = resp.body.patients[Len(resp.body.patients)].id
  /\ (TherapistsAnswered /\ Len(resp.body.data.therapists) > 0)
       => resp.body.data.lastDocId
            = resp.body.data.therapists[Len(resp.body.data.therapists)].id

\* C5, amended: lastDocId is the id of the last record of the store-level page
\* (after dropping the extra, before the keyword and experience filters), so
\* it is the last returned item whenever that record passes the filters, and
\* every returned item lies at or before it in the listing order.
C5_CursorIsLastOfStorePage ==
  /\ PatientsAnswered =>
       LET page == resp.body
           n == Len(page.patients)
       IN /\ page.lastDocId = IF Len(StorePage) > 0
                              THEN StorePage[Len(StorePage)] ELSE NoId
          /\ n > 0 =>
               \/ page.patients[n].id = page.lastDocId
               \/ /\ Truthy(req.q.keyword)
                  /\ Before(users, "createdAt", page.patients[n].id,
                            page.lastDocId)
                  /\ ~PatientMatches([doc |-> users[page.lastDocId]],
                                     req.q.keyword)
  /\ TherapistsAnswered =>
       LET page == resp.body.data
           n == Len(page.therapists)
       IN /\ page.lastDocId = IF Len(StorePage) > 0
                              THEN StorePage[Len(StorePage)] ELSE NoId
          /\ n > 0 =>
               \/ page.therapists[n].id = page.lastDocId
               \/ /\ Truthy(req.q.keyword) \/ Truthy(req.q.experience)
                  /\ Before(users, "updatedAt", page.therapists[n].id,
                            page.lastDocId)

\* a keyword removed the last record of the page: the cursor is past the
\* last returned item
C5_Witness ==
  /\ PatientsAnswered /\ Truthy(req.q.keyword)
  /\ Len(resp.body.patients) > 0
  /\ resp.body.lastDocId # resp.body.patients[Len(resp.body.patients)].id
  /\ resp.body.lastDocId = StorePage[Len(StorePage)]

\* C6: no membership query of getPatients, getTherapists or
\* getTherapistsSummary carries more than 10 identifiers.
C6_InListsAtMostTen ==
  \A k \in 1..Len(inLog) : Len(inLog[k]) <= 10

\* the part of C6 that holds: the chunked lookups of the therapist controller
TherapistInListsAtMostTen ==
  req.h \in {"getTherapists", "getTherapistsSummary"}
    => \A k \in 1..Len(inLog) : Len(inLog[k]) <= 10

\* the distinct therapist references of the store-level page
PageReferences ==
  {users[StorePage[k]].assigned_therapist : k \in 1..Len(StorePage)} \ {NoId}

Resolves(t) ==
  t # NoId /\ t \in DOMAIN users /\ users[t].role = "professional"

PatientsOf(uid) ==
  {p \in DOMAIN users : users[p].role = "patient"
                        /\ users[p].assignedTherapist = uid}

\* C8: getTherapists issues ceil(n / 10) membership lookups for the n
\* therapists it returns, and each assignedPatientsCount is the number of
\* patient records whose assignedTherapist is that therapist's uid.
C8_PatientCounts ==
  (TherapistsAnswered /\ resp.source = "store") =>
    LET ts == resp.body.data.therapists
    IN /\ Len(inLog) = (Len(ts) + 9) \div 10
       /\ \A n \in 1..Len(ts) :
            ts[n].assignedPatientsCount
              = Cardinality(PatientsOf(users[ts[n].id].uid))

\* the part of C8 that holds: the number of lookups, and the counts of a page
\* on which no two therapists share a uid
CountsWhereUidsDistinct ==
  (TherapistsAnswered /\ resp.source = "store") =>
    LET ts == resp.body.data.therapists
    IN /\ Len(inLog) = (Len(ts) + 9) \div 10
       /\ (\A a, b \in 1..Len(ts) :
              users[ts[a].id].uid = users[ts[b].id].uid => a = b) =>
            \A n \in 1..Len(ts) :
              ts[n].assignedPatientsCount
                = Cardinality(PatientsOf(users[ts[n].id].uid))

\* 25 therapists on one page, 3 lookups, counted patients in the first and in
\* a later chunk
C8_Witness ==
  /\ TherapistsAnswered /\ resp.source = "store"
  /\ Len(resp.body.data.therapists) = 25
  /\ Len(inLog) = 3
  /\ \E a \in 1..10, b \in 11..25 :
       /\ resp.body.data.therapists[a].assignedPatientsCount > 0
       /\ resp.body.data.therapists[b].assignedPatientsCount > 0

\* a filter value that C9 calls a no-op
NoOpValue(v) == v = Undefined \/ v = <<>> \/ v = S_all

\* C9: a filter parameter that is omitted, empty or "all" changes nothing: the
\* page equals the page of the same request without that parameter.
C9_NoOpFilters ==
  /\ (PatientsAnswered /\ resp.source = "store") =>
       /\ NoOpValue(req.q.profileComplete) =>
            resp.body
              = fetchPatients(users,
                  [req.q EXCEPT !.profileComplete = Undefined]).body
       /\ NoOpValue(req.q.therapistId) =>
            resp.body
              = fetchPatients(users,
                  [req.q EXCEPT !.therapistId = Undefined]).body
       /\ NoOpValue(req.q.keyword) =>
            resp.body
              = fetchPatients(users, [req.q EXCEPT !.keyword = Undefined]).body
  /\ (TherapistsAnswered /\ resp.source = "store") =>
       /\ NoOpValue(req.q.specialization) =>
            resp.body.data
              = fetchTherapists(users,
                  [req.q EXCEPT !.specialization = Undefined]).body
       /\ NoOpValue(req.q.isVerified) =>
            resp.body.data
              = fetchTherapists(users,
                  [req.q EXCEPT !.isVerified = Undefined]).body
       /\ NoOpValue(req.q.isProfileComplete) =>
            resp.body.data
              = fetchTherapists(users,
                  [req.q EXCEPT !.isProfileComplete = Undefined]).body
       /\ NoOpValue(req.q.experience) =>
            resp.body.data
              = fetchTherapists(users,
                  [req.q EXCEPT !.experience = Undefined]).body

\* the parts of C9 that hold: every filter of getTherapists, and the omitted
\* and empty values of the filters of getPatients
NoOpFiltersThatHold ==
  /\ (PatientsAnswered /\ resp.source = "store") =>
       /\ ~Truthy(req.q.profileComplete) =>
            resp.body
              = fetchPatients(users,
                  [req.q EXCEPT !.profileComplete = Undefined]).body
       /\ ~Truthy(req.q.therapistId) =>
            resp.body
              = fetchPatients(users,
                  [req.q EXCEPT !.therapistId = Undefined]).body
       /\ ~Truthy(req.q.keyword) =>
            resp.body
              = fetchPatients(users, [req.q EXCEPT !.keyword = Undefined]).body
  /\ (TherapistsAnswered /\ resp.source = "store") =>
       /\ NoOpValue(req.q.specialization) =>
            resp.body.data
              = fetchTherapists(users,
                  [req.q EXCEPT !.specialization = Undefined]).body
       /\ NoOpValue(req.q.isVerified) =>
            resp.body.data
              = fetchTherapists(users,
                  [req.q EXCEPT !.isVerified = Undefined]).body
       /\ NoOpValue(req.q.isProfileComplete) =>
            resp.body.data
              = fetchTherapists(users,
                  [req.q EXCEPT !.isProfileComplete = Undefined]).body
       /\ NoOpValue(req.q.experience) =>
            resp.body.data
              = fetchTherapists(users,
                  [req.q EXCEPT !.experience = Undefined]).body

\* the experience ranges as C10 names them: lowest value, and highest value
\* (none for "10+")
BucketNames == {S_0_2, S_3_5, S_6_10, S_10p}
BucketLow(b) ==
  CASE b = S_0_2 -> 0 [] b = S_3_5 -> 3 [] b = S_6_10 -> 6 [] OTHER -> 11
BucketHigh(b) ==
  CASE b = S_0_2 -> 2 [] b = S_3_5 -> 5 [] b = S_6_10 -> 10 [] OTHER -> 1000
InNamedRange(b, e) == BucketLow(b) <= e /\ e <= BucketHigh(b)

\* C10: the experience filter keeps exactly the therapists of the store-level
\* page whose experience lies in the named range, in page order, and the
\* experience of every therapist lies in exactly one of the four buckets.
C10_ExperienceBuckets ==
  /\ (TherapistsAnswered /\ resp.source = "store"
        /\ req.q.experience \in BucketNames /\ ~Truthy(req.q.keyword)) =>
       ItemIds(resp.body.data.therapists)
         = SelectSeq(StorePage,
                     LAMBDA i : InNamedRange(req.q.experience,
                                             users[i].experience))
  /\ \A i \in DOMAIN users :
       users[i].role = "professional" =>
         Cardinality({b \in BucketNames :
                        InExperienceBucket(b, users[i].experience)}) = 1

\* the example of C10: experiences 1, 4, 7 and 11 on the page, "6-10" keeps
\* the 7 only
C10_Witness ==
  /\ TherapistsAnswered /\ resp.source = "store"
  /\ req.q.experience = S_6_10 /\ ~Truthy(req.q.keyword)
  /\ {users[StorePage[k]].experience : k \in 1..Len(StorePage)} = {1, 4, 7, 11}
  /\ Len(resp.body.data.therapists) = 1
  /\ resp.body.data.therapists[1].doc.experience = 7

\* a therapist with experience 10 is kept by "6-10" and one is dropped by "10+"
BoundaryOfTen ==
  TherapistsAnswered /\ resp.source = "store" /\ ~Truthy(req.q.keyword)
  /\ \E k \in 1..Len(StorePage) :
       /\ users[StorePage[k]].experience = 10
       /\ req.q.experience = S_10p
       /\ StorePage[k] \notin SeqIds(ItemIds(resp.body.data.therapists))

----------------------------------------------------------------------------
(* Properties of the caches, checked under Spec *)

\* the key and time-to-live under which each cache is read by the request
PatientReadKey(r) ==
  IF r.h = "getPatients" THEN PatientsCacheKey(r.q) ELSE PatientKey(r.id)
MiddlewareReadKey(r) ==
  IF r.h = "getTherapists" THEN MiddlewareKey("/api/therapists", r.q)
  ELSE MiddlewareKey("/api/therapists/summary", NoQuery)
MiddlewareReadTtl(r) ==
  IF r.h = "getTherapists" THEN MW_LIST_TTL ELSE MW_SUMMARY_TTL
TherapistReadKey(r) ==
  IF r.h = "getTherapists" THEN TherapistsCacheKey(r.q)
  ELSE TherapistsSummaryKey
TherapistReads(r) == r.h = "getTherapistsSummary" \/ r.q.lastDocId = NoId

OneEntryPerKey(cache) == \A a, b \in cache : a.key = b.key => a = b

\* C1: in each of the three caches a read of key k at time t is answered from
\* the cache exactly when an entry for k of age t - storedAt < ttl exists (an
\* entry of age >= ttl is never returned), the answer is the payload stored
\* by the last set of k, and a key holds one entry at most.
C1_CacheReads ==
  [][served' # served =>
       /\ OneEntryPerKey(pcache) /\ OneEntryPerKey(tcache)
       /\ OneEntryPerKey(mcache)
       /\ req'.h \in {"getPatients", "getPatientById"} =>
            LET es == {e \in pcache : e.key = PatientReadKey(req')}
            IN /\ resp'.source = "pcache"
                    <=> \E e \in es : now - e.timestamp < CACHE_TTL
               /\ resp'.source = "pcache" =>
                    \E e \in es : resp'.body = e.data
               /\ resp'.source # "pcache" =>
                    \A e \in es : now - e.timestamp >= CACHE_TTL
       /\ req'.h \in {"getTherapists", "getTherapistsSummary"} =>
            LET ms == {e \in mcache : e.key = MiddlewareReadKey(req')}
                ts == {e \in tcache : e.key = TherapistReadKey(req')}
                ttl == MiddlewareReadTtl(req')
            IN /\ resp'.source = "mcache"
                    <=> \E e \in ms : now - e.timestamp < ttl
               /\ resp'.source = "mcache" =>
                    \E e \in ms : resp'.body = e.data
               /\ resp'.source = "tcache" =>
                    \E e \in ts : /\ now - e.timestamp < CACHE_TTL
                                  /\ resp'.body.data = e.data
               /\ (resp'.source # "mcache" /\ TherapistReads(req')) =>
                    (resp'.source = "tcache"
                       <=> \E e \in ts : now - e.timestamp < CACHE_TTL)
  ]_vars

\* the route-level entry of the therapist list has expired and was replaced
\* by this request, which the controller answered from its own entry, stored
\* earlier and still younger than its time-to-live
C1_Witness ==
  /\ req.h = "getTherapists" /\ resp.source = "tcache"
  /\ \E m \in mcache :
       /\ m.key = MiddlewareKey("/api/therapists", req.q)
       /\ m.timestamp = now
  /\ \E t \in tcache :
       /\ t.key = TherapistsCacheKey(req.q)
       /\ now - t.timestamp >= MW_LIST_TTL
       /\ now - t.timestamp < CACHE_TTL
       /\ resp.body.data = t.data

\* the ids of the records a cached payload contains
PatientPayloadIds(e) ==
  IF includes(e.key, S_patients)
  THEN {e.data.patients[n].id : n \in 1..Len(e.data.patients)}
  ELSE {e.data.id}
TherapistPayloadIds(name, data) ==
  IF name = "therapists_"
  THEN {data.therapists[n].id : n \in 1..Len(data.therapists)}
  ELSE {}
MiddlewarePayloadIds(e) ==
  IF e.key.url = "/api/therapists"
  THEN TherapistPayloadIds("therapists_", e.data.data)
  ELSE {}

Mutations ==
  {"updatePatient", "batchUpdatePatients", "assignPatientsToTherapist",
   "updateTherapist"}

\* C2: once a successful mutating request has completed, none of the three
\* caches holds an entry whose payload contains a record the mutation changed.
C2_MutationRemovesStaleEntries ==
  [][(served' # served /\ req'.h \in Mutations /\ Answered(resp')) =>
       LET changed == {i \in DOMAIN users : users'[i] # users[i]}
       IN /\ \A e \in pcache' : PatientPayloadIds(e) \cap changed = {}
          /\ \A e \in tcache' :
               TherapistPayloadIds(e.key.name, e.data) \cap changed = {}
          /\ \A e \in mcache' : MiddlewarePayloadIds(e) \cap changed = {}
  ]_vars

\* what the mutating handlers do achieve: each clears the entries of its own
\* controller's cache that its own invalidation pattern names
OwnCacheCleared ==
  [][(served' # served /\ req'.h \in Mutations /\ Answered(resp')) =>
       /\ req'.h \in {"assignPatientsToTherapist", "updateTherapist"} =>
            tcache' = {}
       /\ req'.h \in {"updatePatient", "batchUpdatePatients"} =>
            \A e \in pcache' : ~includes(e.key, S_patients)
       /\ req'.h = "updatePatient" =>
            \A e \in pcache' : e.key # PatientKey(req'.id)
  ]_vars

----------------------------------------------------------------------------
(* Properties of the writes, checked under SpecOps *)

\* C11: after any sequence of flagPatient calls on a patient, the stored
\* flags hold each flag value passed exactly once, in the order in which the
\* values were first passed.
C11_FlagsOnceInFirstInsertionOrder ==
  \A id \in FlaggedIds :
    IsPatient(users, id) => users[id].flags = Dedup(Flagged(id))

\* a flag was passed, then another, then the first again: both are stored,
\* the earlier first
C11_Witness ==
  /\ IsPatient(users, 1) /\ Len(Flagged(1)) = 3
  /\ Flagged(1)[1] = Flagged(1)[3] /\ Flagged(1)[1] # Flagged(1)[2]
  /\ users[1].flags = <<Flagged(1)[1], Flagged(1)[2]>>

\* the patient records of U whose assignedTherapist is the uid
AssignedTo(U, uid) ==
  {p \in DOMAIN U : U[p].role = "patient" /\ U[p].assignedTherapist = uid}

NonPatientKeepsAssignment ==
  /\ req.h = "assignPatientsToTherapist" /\ Answered(resp)
  /\ \E i \in DOMAIN users \ req.ids :
       /\ users[i].role # "patient"
       /\ users[i].assignedTherapist = users[req.id].uid

----------------------------------------------------------------------------
(* Properties of the routed requests, checked under SpecAuth *)

WriteRoutes == PatientWriteRoutes \cup TherapistWriteRoutes

InChain == chain.stage # "idle"

\* C13: a handler is reached or has run only for a request whose token
\* jwt.verify accepts and names an admin that existed, with a role in the
\* route's list, when protect looked it up (and still so when the handler
\* starts); a request with no token or a rejected one ends with 401 and a
\* request of an existing admin with a role outside the list ends with 403,
\* the handler not run; POST /api/admins and DELETE /api/admins/:id run for
\* super_admin only, patient and therapist writes for admin or super_admin
C13_HandlerOnlyForListedRole ==
  InChain =>
    /\ (chain.stage = "handler" \/ chain.ran) =>
         /\ chain.token # NoToken /\ Verifies(chain.token)
         /\ chain.user # NoUser /\ chain.user.id = chain.token.id
         /\ chain.user.role \in RouteRoles(chain.route)
         /\ chain.route \in {"POST /api/admins", "DELETE /api/admins/:id"}
              => chain.user.role = "super_admin"
         /\ chain.route \in WriteRoutes
              => chain.user.role \in {"admin", "super_admin"}
    /\ chain.stage = "handler" =>
         /\ chain.user.id \in DOMAIN admins
         /\ admins[chain.user.id].role = chain.user.role
    /\ (chain.stage = "done"
        /\ (chain.token = NoToken \/ ~Verifies(chain.token))) =>
         resp.status = 401 /\ resp.source = "thrown" /\ ~chain.ran
    /\ (chain.stage = "done" /\ chain.user # NoUser
        /\ chain.user.role \notin RouteRoles(chain.route)) =>
         resp.status = 403 /\ resp.source = "thrown" /\ ~chain.ran

\* an admin whose role was changed to one outside the list is refused with
\* 403 on a write route, having been served before
C13_Witness ==
  /\ chain.stage = "done" /\ ~chain.ran
  /\ chain.route \in WriteRoutes
  /\ chain.user # NoUser /\ chain.user.role = "therapist"
  /\ resp.status = 403
  /\ served >= 2

\* a handler has run for a super_admin on DELETE /api/admins/:id
HandlerRanForSuperAdmin ==
  /\ InChain /\ chain.ran /\ chain.route = "DELETE /api/admins/:id"
  /\ chain.user.role = "super_admin"

\* a token that verifies but names an admin that no longer exists ends with
\* 403, not 401
DeletedAdminRefused ==
  /\ chain.stage = "done" /\ ~chain.ran
  /\ chain.token # NoToken /\ Verifies(chain.token)
  /\ chain.user = NoUser /\ resp.status = 403

----------------------------------------------------------------------------
(* Properties of the error responses, checked under SpecOps *)

SinglePatientMutations ==
  {"updatePatient", "deletePatient", "assignTherapistToPatient", "flagPatient",
   "uploadPatientDocument"}

\* the step serves a single-patient mutation whose id names no patient record
MutatesNoPatient ==
  /\ served' = served + 1
  /\ req'.h \in SinglePatientMutations
  /\ ~IsPatient(users, req'.id)

\* C14: a single-patient mutation called with an id that does not exist or
\* names a record of another role is answered with 404, writes nothing to
\* the store and removes no cache entry
C14_NoPatientIs404 ==
  [][MutatesNoPatient =>
       /\ Sent(resp').status = 404
       /\ users' = users
       /\ pcache' = pcache /\ tcache' = tcache /\ mcache' = mcache]_vars

\* the part of C14 the handlers keep: nothing is written and no cache entry
\* is removed
NoPatientLeavesStoreAndCaches ==
  [][MutatesNoPatient =>
       /\ users' = users
       /\ pcache' = pcache /\ tcache' = tcache /\ mcache' = mcache]_vars

\* flagPatient on an id that names no record has been answered, with a
\* patient page in the cache
NoPatientAnswered500 ==
  /\ req.h = "flagPatient" /\ req.id = MissingId
  /\ resp.source = "thrown" /\ Sent(resp).status = 500
  /\ pcache # {}

\* the store rejected the calls of the request served last, which no cache
\* answered
StoreFailed ==
  /\ "storeError" \in DOMAIN req
  /\ resp.source \notin {"pcache", "tcache", "mcache"}

\* the message of the store's error as the response carries it
CarriesStoreMessage(r) ==
  \/ "error" \in DOMAIN r.body /\ r.body.error = "store error"
  \/ "error" \notin DOMAIN r.body /\ r.body.message = "store error"

\* C15: a store failure during a request is answered with 500 and the
\* store's message, never with a 4xx status; so a store error while
\* getPatientById fetches an existing patient is not answered with 404
C15_StoreFailureIs500 ==
  StoreFailed => Sent(resp).status = 500 /\ CarriesStoreMessage(Sent(resp))

\* the part of C15 the handlers keep: the store's message is passed through
StoreFailureCarriesMessage == StoreFailed => CarriesStoreMessage(Sent(resp))

\* the store failed while getPatientById fetched the existing patient 1 and
\* the response is 404
StoreFailureAnswered404 ==
  /\ StoreFailed /\ req.h = "getPatientById" /\ IsPatient(users, req.id)
  /\ Sent(resp).status = 404

\* the step serves deleteTherapist on a therapist record
DeletesTherapist ==
  /\ served' = served + 1
  /\ req'.h = "deleteTherapist"
  /\ req'.id \in DOMAIN users /\ users[req'.id].role = "professional"

\* C16: deleteTherapist on a therapist to whose uid n >= 1 patient records
\* are assigned answers 400 with assignedPatientsCount = n, deletes nothing
\* and leaves the caches as they were; the record is deleted exactly when no
\* patient record is assigned to it
C16_DeleteRefusedWhileAssigned ==
  [][DeletesTherapist =>
       LET id == req'.id
           n == Cardinality(AssignedTo(users, users[id].uid))
       IN /\ n >= 1 =>
               /\ resp'.status = 400
               /\ resp'.body.assignedPatientsCount = n
               /\ users' = users
               /\ tcache' = tcache /\ pcache' = pcache /\ mcache' = mcache
          /\ id \notin DOMAIN users' <=> n = 0
          /\ \A i \in DOMAIN users \ {id} :
               i \in DOMAIN users' /\ users'[i] = users[i]]_vars

\* deleteTherapist has been refused for a therapist with one assigned
\* patient, another patient being assigned elsewhere, while the therapist
\* cache held an entry
C16_Witness ==
  /\ req.h = "deleteTherapist" /\ req.id \in DOMAIN users
  /\ resp.status = 400 /\ resp.body.assignedPatientsCount = 1
  /\ Cardinality(AssignedTo(users, users[req.id].uid)) = 1
  /\ \E p \in DOMAIN users :
       users[p].role = "patient" /\ users[p].assignedTherapist # NoId
         /\ users[p].assignedTherapist # users[req.id].uid
  /\ tcache # {}

\* the step serves a creation whose email (or uid) is already held
CreatesDuplicate ==
  /\ served' = served + 1
  /\ \/ /\ req'.h = "createPatient"
        /\ \E i \in DOMAIN users :
             users[i].role = "patient" /\ users[i].email = req'.email
     \/ /\ req'.h = "createTherapist"
        /\ \/ \E i \in DOMAIN users : users[i].email = req'.email
           \/ /\ req'.uid # UndefinedId
              /\ \E i \in DOMAIN users : users[i].uid = req'.uid

\* C17: createPatient with an email held by a patient record, and
\* createTherapist with an email held by any user record or a uid already
\* held, end with status 400, add no record and remove no cache entry
C17_DuplicateIs400 ==
  [][CreatesDuplicate =>
       /\ Sent(resp').status = 400
       /\ users' = users
       /\ pcache' = pcache /\ tcache' = tcache /\ mcache' = mcache]_vars

\* createPatient has been refused for an email a patient holds, with a
\* patient page in the cache
C17_Witness ==
  /\ req.h = "createPatient" /\ resp.status = 400
  /\ \E i \in DOMAIN users :
       users[i].role = "patient" /\ users[i].email = req.email
  /\ pcache # {}

\* createTherapist has been refused for an email only a patient holds
TherapistRefusedForPatientEmail ==
  /\ req.h = "createTherapist" /\ resp.status = 400
  /\ resp.body.message = "Email already exists"
  /\ \A i \in DOMAIN users :
       users[i].email = req.email => users[i].role = "patient"
  /\ tcache # {}

\* createTherapist has been refused for a uid already held
TherapistRefusedForUid ==
  /\ req.h = "createTherapist" /\ resp.status = 400
  /\ resp.body.message = "UID already exists"

BatchOperations ==
  {"batchUpdatePatients", "batchUpdateTherapists", "assignPatientsToTherapist"}

\* the write the batch of the request makes to the listed record i
BatchApplied(U, r, i) ==
  /\ i \in DOMAIN U
  /\ U[i].updatedAt = now
  /\ r.h = "batchUpdatePatients" => U[i].isProfileComplete = r.complete
  /\ r.h = "batchUpdateTherapists" => U[i].isVerified = r.verified
  /\ r.h = "assignPatientsToTherapist" =>
       U[i].assignedTherapist = users[r.id].uid

\* C18: a batch operation either applies the write to every listed record
\* and answers success, or changes no record, clears no cache and answers
\* failure; a list naming a record that does not exist fails
C18_BatchAllOrNothing ==
  [][(served' = served + 1 /\ req'.h \in BatchOperations) =>
       /\ \/ /\ Answered(Sent(resp'))
             /\ \A i \in req'.ids : BatchApplied(users', req', i)
          \/ /\ Sent(resp').status >= 400
             /\ users' = users
             /\ pcache' = pcache /\ tcache' = tcache /\ mcache' = mcache
       /\ ~(req'.ids \subseteq DOMAIN users) => ~Answered(Sent(resp'))]_vars

\* a batch naming an existing and a missing record has failed with entries
\* in both caches, the existing record as it was
C18_Witness ==
  /\ req.h \in {"batchUpdatePatients", "batchUpdateTherapists"}
  /\ MissingId \in req.ids /\ req.ids \cap DOMAIN users # {}
  /\ Sent(resp).status = 500
  /\ \A i \in req.ids \cap DOMAIN users : users[i].updatedAt # now
  /\ pcache # {} /\ tcache # {}

\* a batch over two records has been applied
BatchApplies ==
  /\ req.h = "batchUpdatePatients" /\ Answered(resp)
  /\ Cardinality(req.ids) = 2
  /\ \A i \in req.ids : users[i].isProfileComplete = req.complete

----------------------------------------------------------------------------
(* Properties of the cache lifetimes, checked under Spec *)

Minutes(n) == n * 60 * 1000

\* the lifetime stated for the region of a read: 5 minutes for lists and
\* details, 10 minutes for the therapist summary
StatedLifetime(r) ==
  IF r.h = "getTherapistsSummary" THEN Minutes(10) ELSE Minutes(5)

\* C19: an entry is served from its cache for the stated lifetime after it
\* was stored (5 minutes for a list or a detail, 10 minutes for the
\* therapist summary) and no longer, in the route-level cache and in the
\* controller caches behind it
C19_StatedLifetimes ==
  [][served' # served =>
       /\ req'.h \in {"getPatients", "getPatientById"} =>
            LET es == {e \in pcache : e.key = PatientReadKey(req')}
            IN resp'.source = "pcache"
                 <=> \E e \in es : now - e.timestamp < StatedLifetime(req')
       /\ req'.h \in {"getTherapists", "getTherapistsSummary"} =>
            LET ms == {e \in mcache : e.key = MiddlewareReadKey(req')}
                ts == {e \in tcache : e.key = TherapistReadKey(req')}
            IN /\ resp'.source = "mcache"
                    <=> \E e \in ms : now - e.timestamp < StatedLifetime(req')
               /\ (resp'.source # "mcache" /\ TherapistReads(req')) =>
                    (resp'.source = "tcache"
                       <=> \E e \in ts :
                             now - e.timestamp < StatedLifetime(req'))
  ]_vars

\* the part of C19 the patient controller keeps: 5 minutes for its lists and
\* details
PatientLifetimeIsFiveMinutes ==
  [][(served' # served /\ req'.h \in {"getPatients", "getPatientById"}) =>
       LET es == {e \in pcache : e.key = PatientReadKey(req')}
       IN resp'.source = "pcache"
            <=> \E e \in es : now - e.timestamp < Minutes(5)]_vars

\* the therapist list is read 300 ms after the route-level cache stored it
\* and the route-level cache does not answer
RouteEntryGoneAfter300ms ==
  /\ req.h = "getTherapists" /\ req.q.lastDocId = NoId
  /\ now = StartTime + MW_LIST_TTL
  /\ served >= 2
  /\ resp.source = "tcache"

----------------------------------------------------------------------------
(* Properties of the cache keys, checked under SpecKeys *)

\* C20: a getPatients request answered from the cache receives the page its
\* own parameters compute: no two requests whose parameters give different
\* results share a cache key
C20_KeyDeterminesParameters ==
  (req.h = "getPatients" /\ resp.source = "pcache") =>
    resp.body = fetchPatients(users, req.q).body

\* the same of the key alone: requests with one key have one result
OneKeyOneResult ==
  \A q1, q2 \in KeyPatientQueries :
    PatientsCacheKey(q1) = PatientsCacheKey(q2) =>
      fetchPatients(users, q1).body = fetchPatients(users, q2).body

\* the part of C20 the therapist controller keeps: its key is the JSON text
\* of the whole query
TherapistKeyDeterminesParameters ==
  (req.h = "getTherapists" /\ resp.source \in {"tcache", "mcache"}) =>
    resp.body.data = fetchTherapists(users, req.q).body

\* a request with keyword 'n' and profileComplete '_' has been answered
\* from the cache with the page computed for keyword 'n_'
AnsweredWithOtherPage ==
  /\ req.h = "getPatients" /\ resp.source = "pcache"
  /\ req.q.keyword = S_n /\ req.q.profileComplete = S_us
  /\ resp.body.patients = <<>>
  /\ fetchPatients(users, req.q).body.patients # <<>>

----------------------------------------------------------------------------
(* Properties of the cursors, checked under SpecCursor *)

\* the step serves a list request whose lastDocId names no record
DanglingCursor ==
  /\ served' = served + 1
  /\ req'.h \in {"getPatients", "getTherapists"}
  /\ req'.q.lastDocId # NoId /\ req'.q.lastDocId \notin DOMAIN users

NoCursor(q) == [q EXCEPT !.lastDocId = NoId]

\* the page of a list response
ListPage(r) == IF req'.h = "getTherapists" THEN r.body.data ELSE r.body

\* the page the store gives the request of this step without its cursor
FirstPage ==
  IF req'.h = "getTherapists"
  THEN fetchTherapists(users, NoCursor(req'.q)).body
  ELSE fetchPatients(users, NoCursor(req'.q)).body

\* C21: a list request whose lastDocId names no existing record is answered
\* 200 with the page a request without a cursor gets
C21_DanglingCursorRestarts ==
  [][DanglingCursor => Answered(resp') /\ ListPage(resp') = FirstPage]_vars

\* the part of C21 the handlers keep: when the handler computes the page it
\* is the first page
DanglingCursorFromStoreRestarts ==
  [][(DanglingCursor /\ resp'.source = "store") =>
       Answered(resp') /\ ListPage(resp') = FirstPage]_vars

\* a patient list request whose cursor names a deleted record got the first
\* page, of one record, with more to follow
DeletedCursorRestarted ==
  /\ req.h = "getPatients" /\ req.q.lastDocId = 1 /\ 1 \notin DOMAIN users
  /\ resp.source = "store" /\ Len(resp.body.patients) = 1
  /\ resp.body.hasMore

\* the route-level cache answered a therapist list request whose cursor
\* names a deleted record
DeletedCursorFromRouteCache ==
  /\ req.h = "getTherapists" /\ req.q.lastDocId = TherapistId(3)
  /\ TherapistId(3) \notin DOMAIN users
  /\ resp.source = "mcache"

----------------------------------------------------------------------------
(* Properties of the references between records, checked under SpecOps *)

\* the step is a deleteTherapist call that deletes the therapist record
TherapistDeleted ==
  /\ served' = served + 1
  /\ req'.h = "deleteTherapist"
  /\ req'.id \in DOMAIN users /\ req'.id \notin DOMAIN users'

\* C25: when deleteTherapist succeeds no patient record names the deleted
\* therapist, neither by document id in assigned_therapist nor by uid in
\* assignedTherapist
C25_NoReferenceToDeletedTherapist ==
  [][TherapistDeleted =>
       \A p \in DOMAIN users' :
         users'[p].role = "patient" =>
           /\ users'[p].assigned_therapist # req'.id
           /\ users'[p].assignedTherapist # users[req'.id].uid]_vars

\* the part of C25 deleteTherapist keeps: no patient record holds the uid
NoUidReferenceToDeletedTherapist ==
  [][TherapistDeleted =>
       \A p \in DOMAIN users' :
         users'[p].role = "patient" =>
           users'[p].assignedTherapist # users[req'.id].uid]_vars

\* a therapist has been deleted whose document id a patient record holds
DeletedTherapistStillNamed ==
  /\ req.h = "deleteTherapist" /\ Answered(resp)
  /\ req.id \notin DOMAIN users
  /\ \E p \in DOMAIN users :
       users[p].role = "patient" /\ users[p].assigned_therapist = req.id

----------------------------------------------------------------------------
(* Properties of the route-level cache, checked under SpecOps *)

RouteCached == {"getTherapists", "getTherapistsSummary", "getTherapistById"}

\* C26: a GET behind cacheMiddleware whose handler answers with an error
\* status leaves the middleware's cache as it was, and no request is answered
\* from that cache with an error body
C26_RouteCacheKeepsNoError ==
  [][(served' = served + 1 /\ req'.h \in RouteCached) =>
       /\ (resp'.source # "mcache" /\ resp'.status >= 400) => mcache' = mcache
       /\ resp'.source = "mcache" => resp'.body.success]_vars

\* a GET of a therapist that does not exist has been answered from the
\* route-level cache, status 200, with the body of the earlier 404
ErrorBodyFromRouteCache ==
  /\ req.h = "getTherapistById" /\ req.id = MissingId
  /\ resp.source = "mcache" /\ resp.status = 200
  /\ ~resp.body.success /\ resp.body.message = "Therapist not found"

----------------------------------------------------------------------------
(* Properties of admin management, checked under SpecAuth *)

SuperAdmins(A) == {a \in DOMAIN A : A[a].role = "super_admin"}

\* C27: a request of a caller whose role is admin never adds an account to
\* those with role super_admin
C27_AdminCannotMakeSuperAdmin ==
  [][(chain.stage = "handler" /\ chain.user.role = "admin") =>
       SuperAdmins(admins') \subseteq SuperAdmins(admins)]_vars

\* the part of C27 the routes keep: an admin cannot register an account
AdminCannotRegister ==
  [][(chain.stage = "handler" /\ chain.user.role = "admin") =>
       DOMAIN admins' \subseteq DOMAIN admins]_vars

\* the admin account 2, calling as admin, has made itself super_admin
AdminMadeItselfSuperAdmin ==
  /\ chain.stage = "done" /\ chain.ran
  /\ chain.route = "PUT /api/admins/:id"
  /\ chain.user = [id |-> 2, role |-> "admin"]
  /\ admins[2].role = "super_admin"

----------------------------------------------------------------------------
(* Properties of the patient records, checked under SpecOps *)

\* C28: no two patient records hold the same email
C28_PatientEmailsUnique ==
  \A p1, p2 \in DOMAIN users :
    (users[p1].role = "patient" /\ users[p2].role = "patient"
     /\ users[p1].email = users[p2].email) => p1 = p2

\* the part of C28 createPatient keeps, one request at a time: a creation
\* adds no second patient record with an email
CreationKeepsEmailsUnique ==
  [][(served' = served + 1 /\ req'.h = "createPatient"
      /\ C28_PatientEmailsUnique) => C28_PatientEmailsUnique']_vars

\* updatePatient has given patient 1 the email of patient 2
EmailTakenByUpdate ==
  /\ req.h = "updatePatient" /\ Answered(resp)
  /\ 1 \in DOMAIN users /\ 2 \in DOMAIN users
  /\ users[1].role = "patient" /\ users[2].role = "patient"
  /\ users[1].email = users[2].email

----------------------------------------------------------------------------
(* Properties of the mutation responses, checked under SpecOps *)

ReturnsRecord == {"flagPatient", "uploadPatientDocument", "updatePatient"}

\* C29: the record in the response of a successful flagPatient,
\* uploadPatientDocument or updatePatient is the record stored when the call
\* has committed; the flags in a flagPatient response are the stored flags
C29_ResponseIsStoredRecord ==
  (req.h \in ReturnsRecord /\ Answered(resp)) =>
    /\ resp.body.doc = users[req.id]
    /\ resp.body.doc.flags = users[req.id].flags

\* the part of C29 uploadPatientDocument keeps: every field but updatedAt
UploadResponseIsStoredRecord ==
  (req.h = "uploadPatientDocument" /\ Answered(resp)) =>
    /\ resp.body.doc = [users[req.id] EXCEPT !.updatedAt = resp.body.doc.updatedAt]
    /\ resp.body.updated_at = users[req.id].updatedAt

\* flagPatient with a flag already present has answered with the flag twice
FlagTwiceInResponse ==
  /\ req.h = "flagPatient" /\ Answered(resp)
  /\ users[req.id].flags = <<"risk">>
  /\ resp.body.doc.flags = <<"risk", "risk">>

----------------------------------------------------------------------------
(* Frame of the session status endpoints, checked under SpecSessions *)

\* every session but the addressed one, and every field of that one outside
\* 'fields', is as it was
SessionFrame(id, fields) ==
  /\ DOMAIN sessions' = DOMAIN sessions
  /\ \A k \in DOMAIN sessions :
       \A f \in DOMAIN sessions[k] :
         (k # id \/ f \notin fields) => sessions'[k][f] = sessions[k][f]

SessionRefused ==
  /\ sessions' = sessions
  /\ Sent(resp').status = 404

----------------------------------------------------------------------------
(* Requests in flight together, checked under SpecRace *)

InSeq(x, seq) == \E i \in DOMAIN seq : seq[i] = x

\* the request's write has reached the store
Committed(pr) == pr.pc \in {"clear", "done"}

BothCommitted(h) ==
  /\ \A p \in ProcIds :
       /\ Committed(procs[p])
       /\ procs[p].call.h = h
       /\ procs[p].call.id = procs[1].call.id
  /\ procs[1].call # procs[2].call

\* C22: however two flagPatient calls with different flags, or two
\* uploadPatientDocument calls with different URLs, on one patient are
\* interleaved, once both have committed the stored list holds both values.
C22_NoLostUpdate ==
  /\ BothCommitted("flagPatient") =>
       \A p \in ProcIds :
         InSeq(procs[p].call.flag, users[procs[p].call.id].flags)
  /\ BothCommitted("uploadPatientDocument") =>
       \A p \in ProcIds :
         InSeq(procs[p].call.url, users[procs[p].call.id].documents)

\* two flags stored although one transaction read the list before the other
\* one committed and had to run again
C22_Witness ==
  /\ BothCommitted("flagPatient")
  /\ \E p \in ProcIds : procs[p].runs = 2
  /\ Len(users[1].flags) = 2
  /\ \A p \in ProcIds : InSeq(procs[p].call.flag, users[1].flags)

\* the patients whose assignedTherapist is the uid of therapist id
ReferencingPatients(id) == AssignedPatients(users, users[id].uid)

\* C23: however two assignPatientsToTherapist calls on one therapist with
\* the sets S1 and S2 are interleaved, once both have committed the patients
\* that reference the therapist are exactly S1 or exactly S2.
C23_LastAssignmentWins ==
  BothCommitted("assignPatientsToTherapist") =>
    \E p \in ProcIds : ReferencingPatients(procs[1].call.id) = procs[p].call.ids

\* both calls read the assigned patients before either committed, and both
\* sets reference the therapist afterwards
BothSetsAssigned ==
  /\ BothCommitted("assignPatientsToTherapist")
  /\ ReferencingPatients(procs[1].call.id)
       = procs[1].call.ids \cup procs[2].call.ids
  /\ procs[1].snap.current = procs[2].snap.current

\* the payload of getPatientById was read after the write of call
ReadAfter(data, call) ==
  IF call.h = "flagPatient" THEN InSeq(call.flag, data.doc.flags)
  ELSE InSeq(call.url, data.doc.documents)

\* the mutation has committed, cleared the cache and answered
Invalidated(pr) ==
  pr.pc = "done" /\ InTransaction(pr.call) /\ pr.snap # <<>>

\* C24: once a mutation of a patient has committed and cleared the cache, no
\* entry of the patient controller's cache holds a payload of that patient
\* that was read from the store before the commit.
C24_InvalidationNotUndone ==
  \A p \in ProcIds :
    Invalidated(procs[p]) =>
      \A e \in CacheGet(pcache, PatientKey(procs[p].call.id)) :
        ReadAfter(e.data, procs[p].call)

\* a getPatientById that arrived after the mutation's response is answered
\* from the cache with the patient as it was before the mutation
AnsweredWithPreMutationData ==
  \E p, q \in ProcIds :
    /\ Invalidated(procs[p])
    /\ procs[q].pc = "done" /\ procs[q].call.h = "getPatientById"
    /\ procs[q].snap = <<>>
    /\ req = procs[q].call /\ resp.source = "pcache"
    /\ ~ReadAfter(resp.body, procs[p].call)
====
